---- MODULE Spec2Model ----
(***************************************************************************)
(* Dynamic block / meta-argument expansion of terraform/tfhcl.             *)
(*                                                                         *)
(* The decoders of expand_spec.go (decodeDynamicSpec, newBlock,            *)
(* decodeMetaArgSpec) are translated from their source.  The typed value   *)
(* system (cty), the expression evaluator (hcl) and the recursive walk of  *)
(* expand_body.go are collaborators of those decoders; they are modelled   *)
(* as far as the decoders and the tests of expand_body_test.go use them.   *)
(*                                                                         *)
(* The accumulation of issues and of changes by the runner (runner.go) and *)
(* the annotations that suppress issues (annotation.go) are a second state *)
(* machine, RunnerSpec.  The making of the annotations of a file           *)
(* (NewAnnotations) and their test on an issue (IsAffected) are a third,   *)
(* AnnotationSpec.                                                         *)
(***************************************************************************)
EXTENDS Integers, Sequences, FiniteSets, TLC

\* the expansion: the source body, the context, and the results of the decoders
VARIABLES body, ctx, dyn, nb, out, parent, meta

\* the runner: its configuration, its fields Issues, changes and currentExpr,
\* the issues handed to emitIssue so far, the number of calls, the last call
VARIABLES runner, Issues, changes, currentExpr, emitted, calls, last

\* the annotations: the file given to NewAnnotations, what NewAnnotations
\* returned for it, and the last call of IsAffected on one of its annotations
VARIABLES file, ants, affected

evars == <<body, ctx, dyn, nb, out, parent, meta>>
rvars == <<runner, Issues, changes, currentExpr, emitted, calls, last>>
vars == <<body, ctx, dyn, nb, out, parent, meta,
          runner, Issues, changes, currentExpr, emitted, calls, last,
          file, ants, affected>>

(***************************************************************************)
(* Bounds of the model.                                                    *)
(***************************************************************************)
\* longest for_each collection drawn as an input
MaxLen == 2
\* largest number of blocks of one type in an input body of the order family
MaxBlocks == 2

(***************************************************************************)
(* cty values.  k is the tag (null, unknown, known; nil is the zero        *)
(* cty.Value), ty the type, marks the set of marks.  A string or a bool    *)
(* keeps its payload in s, a number in n (counted in halves, so that 3 is  *)
(* 1.5), a collection its elements in es and, for a map or an object, its  *)
(* keys in ks (cty keeps and iterates them in lexical order).              *)
(***************************************************************************)
Val(k, ty, s, n, ks, es) ==
  [k |-> k, ty |-> ty, marks |-> {}, s |-> s, n |-> n, ks |-> ks, es |-> es]

NilVal == Val("nil", "dynamic", "", 0, <<>>, <<>>)
StringVal(s) == Val("known", "string", s, 0, <<>>, <<>>)
NumberHalvesVal(h) == Val("known", "number", "", h, <<>>, <<>>)
NumberIntVal(i) == NumberHalvesVal(2 * i)
BoolVal(b) == Val("known", "bool", IF b THEN "true" ELSE "false", 0, <<>>, <<>>)
ListVal(es) == Val("known", "list", "", 0, <<>>, es)
TupleVal(es) == Val("known", "tuple", "", 0, <<>>, es)
MapVal(ks, es) == Val("known", "map", "", 0, ks, es)
ObjectVal(ks, es) == Val("known", "object", "", 0, ks, es)
NullVal(ty) == Val("null", ty, "", 0, <<>>, <<>>)
UnknownVal(ty) == Val("unknown", ty, "", 0, <<>>, <<>>)
DynamicVal == UnknownVal("dynamic")

Mark(v, m) == [v EXCEPT !.marks = @ \cup {m}]
WithMarks(v, ms) == [v EXCEPT !.marks = @ \cup ms]
Unmark(v) == [v EXCEPT !.marks = {}]
IsMarked(v) == v.marks # {}
IsNull(v) == v.k = "null"
IsKnown(v) == v.k # "unknown"

IterableTypes == {"list", "map", "tuple", "object", "set"}

\* cty.Value.CanIterateElements: decided by the type; never for a marked value
CanIterateElements(v) == ~IsMarked(v) /\ v.ty \in IterableTypes

\* cty.Type.FriendlyName
FriendlyName(ty) ==
  CASE ty = "dynamic" -> "dynamic"
    [] ty = "list" -> "list of string"
    [] ty = "map" -> "map of string"
    [] OTHER -> ty

\* cty.Value.ElementIterator: the (key, value) pairs in iteration order: a
\* list or tuple by zero-based index, a map or object by key
Elements(v) ==
  [i \in 1..Len(v.es) |->
     [key |-> IF v.ty \in {"list", "tuple", "set"}
                THEN NumberIntVal(i - 1) ELSE StringVal(v.ks[i]),
      value |-> v.es[i]]]

\* the decimal strings convert.Convert parses as numbers, in halves
NumberStrings == {"0", "1", "2", "-1", "1.5"}
ParseNumber(s) ==
  CASE s = "0" -> 0
    [] s = "1" -> 2
    [] s = "2" -> 4
    [] s = "-1" -> -2
    [] s = "1.5" -> 3

\* the decimal form of a number given in halves
FormatNumber(h) ==
  IF h % 2 = 0 THEN ToString(h \div 2)
  ELSE IF h > 0 THEN ToString(h \div 2) \o ".5"
  ELSE "-" \o ToString((0 - h) \div 2) \o ".5"

\* convert.Convert(v, cty.String): marks are kept, null and unknown keep
\* their tag, a collection has no conversion
ConvertString(v) ==
  IF v.ty \notin {"string", "number", "bool", "dynamic"}
    THEN [ok |-> FALSE, val |-> v]
  ELSE IF v.k # "known"
    THEN [ok |-> TRUE, val |-> [v EXCEPT !.ty = "string"]]
  ELSE IF v.ty = "number"
    THEN [ok |-> TRUE, val |-> WithMarks(StringVal(FormatNumber(v.n)), v.marks)]
  ELSE [ok |-> TRUE, val |-> WithMarks(StringVal(v.s), v.marks)]

\* convert.Convert(v, cty.Number) of a known, non-null value
ConvertNumber(v) ==
  IF v.ty = "number" THEN [ok |-> TRUE, val |-> v]
  ELSE IF v.ty = "string" /\ v.s \in NumberStrings
    THEN [ok |-> TRUE, val |-> WithMarks(NumberHalvesVal(ParseNumber(v.s)), v.marks)]
  ELSE [ok |-> FALSE, val |-> v]

\* gocty.FromCtyValue(v, &int): only a whole number fits
FromCtyValueInt(v) ==
  IF v.n % 2 = 0 THEN [ok |-> TRUE, num |-> v.n \div 2]
  ELSE [ok |-> FALSE, num |-> 0]

(***************************************************************************)
(* hcl expressions and evaluation contexts.  An expression is a literal,   *)
(* a traversal root or root.attr, a list of expressions, or an expression  *)
(* whose evaluation reports an error.  A context maps variable names to    *)
(* values.                                                                 *)
(***************************************************************************)
Lit(v) == [e |-> "lit", v |-> v, root |-> "", attr |-> "", items |-> <<>>]
Var(root) == [e |-> "trav", v |-> NilVal, root |-> root, attr |-> "", items |-> <<>>]
Trav(root, attr) ==
  [e |-> "trav", v |-> NilVal, root |-> root, attr |-> attr, items |-> <<>>]
ExprListOf(items) ==
  [e |-> "list", v |-> NilVal, root |-> "", attr |-> "", items |-> items]
BadExpr == [e |-> "err", v |-> NilVal, root |-> "", attr |-> "", items |-> <<>>]

EmptyCtx == [x \in {} |-> NilVal]

\* the index of key k in the key list ks, 0 when absent
RECURSIVE KeyIndex(_, _, _)
KeyIndex(ks, k, i) ==
  IF i > Len(ks) THEN 0 ELSE IF ks[i] = k THEN i ELSE KeyIndex(ks, k, i + 1)

\* one attribute step of a traversal
GetAttr(obj, attr) ==
  IF obj.k = "unknown" /\ obj.ty \in {"dynamic", "object", "map"}
    THEN [val |-> WithMarks(DynamicVal, obj.marks), err |-> FALSE]
  ELSE IF obj.k = "known" /\ obj.ty \in {"object", "map"}
          /\ KeyIndex(obj.ks, attr, 1) > 0
    THEN [val |-> WithMarks(obj.es[KeyIndex(obj.ks, attr, 1)], obj.marks),
          err |-> FALSE]
  ELSE [val |-> DynamicVal, err |-> TRUE]

\* hcl.Expression.Value: the value, and whether error diagnostics came back
RECURSIVE Value(_, _)
Value(expr, c) ==
  CASE expr.e = "lit" -> [val |-> expr.v, err |-> FALSE]
    [] expr.e = "trav" ->
         IF expr.root \notin DOMAIN c THEN [val |-> DynamicVal, err |-> TRUE]
         ELSE IF expr.attr = "" THEN [val |-> c[expr.root], err |-> FALSE]
         ELSE GetAttr(c[expr.root], expr.attr)
    [] expr.e = "list" ->
         [val |-> TupleVal([i \in 1..Len(expr.items) |-> Value(expr.items[i], c).val]),
          err |-> \E i \in 1..Len(expr.items) : Value(expr.items[i], c).err]
    [] OTHER -> [val |-> DynamicVal, err |-> TRUE]

\* an error diagnostic; its subject is the range it points at, kept for the
\* diagnostics a property is stated about and empty for the others
DiagAt(summary, detail, subject) ==
  [severity |-> "error", summary |-> summary, detail |-> detail, subject |-> subject]
Diag(summary, detail) == DiagAt(summary, detail, <<>>)
EvalDiag == Diag("Evaluation error", "The expression could not be evaluated.")
HasErrors(diags) == \E i \in 1..Len(diags) : diags[i].severity = "error"

(***************************************************************************)
(* Bodies and blocks.  A body holds attributes (name -> expression) and    *)
(* nested blocks; a block has a type, labels, the range of its definition  *)
(* (the position of the block in its source body) and a body.              *)
(***************************************************************************)
Body(attrs, blocks) == [attrs |-> attrs, blocks |-> blocks]
Block(type, labels, defRange, b) ==
  [Type |-> type, Labels |-> labels, DefRange |-> defRange, Body |-> b]
NoAttrs == [x \in {} |-> BadExpr]

(***************************************************************************)
(* dynamicIteration: the iterator of one generated block and the iterators *)
(* it inherits from the enclosing dynamic blocks.  nil is the iteration    *)
(* with no name.                                                           *)
(***************************************************************************)
NoBindings == [x \in {} |-> [Key |-> NilVal, Value |-> NilVal]]
NilIteration ==
  [IteratorName |-> "", Key |-> NilVal, Value |-> NilVal, Inherited |-> NoBindings]

\* dynamicIteration.MakeChild: the child inherits the parent and all the
\* parent inherits
MakeChild(i, iteratorName, key, value) ==
  [IteratorName |-> iteratorName, Key |-> key, Value |-> value,
   Inherited |->
     IF i.IteratorName = "" THEN NoBindings
     ELSE [n \in DOMAIN i.Inherited \cup {i.IteratorName} |->
             IF n = i.IteratorName THEN [Key |-> i.Key, Value |-> i.Value]
             ELSE i.Inherited[n]]]

\* dynamicIteration.Object: what the iterator variable evaluates to
IterObject(key, value) == ObjectVal(<<"key", "value">>, <<key, value>>)

\* dynamicIteration.EvalContext: the iterators layered over the base context
EvalContext(i, base) ==
  IF i.IteratorName = "" THEN base
  ELSE [n \in DOMAIN base \cup DOMAIN i.Inherited \cup {i.IteratorName} |->
          IF n = i.IteratorName THEN IterObject(i.Key, i.Value)
          ELSE IF n \in DOMAIN i.Inherited
            THEN IterObject(i.Inherited[n].Key, i.Inherited[n].Value)
          ELSE base[n]]

(***************************************************************************)
(* decodeDynamicSpec.  A pointer result is a sequence of length 0 (nil)    *)
(* or 1.                                                                   *)
(***************************************************************************)
BlockHeaderSchema(type, labelNames) == [Type |-> type, LabelNames |-> labelNames]

\* rawSpec.Body.Content(schema) against dynamicBlockBodySchemaLabels or
\* dynamicBlockBodySchemaNoLabels: for_each is required, iterator optional,
\* labels only with the first schema, and only content blocks
DynamicSchemaDiags(blockS, rawSpec) ==
  LET allowed == IF Len(blockS.LabelNames) # 0
                   THEN {"for_each", "iterator", "labels"}
                   ELSE {"for_each", "iterator"}
      a == rawSpec.Body.attrs
      bs == rawSpec.Body.blocks
  IN  (IF "for_each" \notin DOMAIN a
         THEN <<Diag("Missing required argument",
                     "The argument for_each is required, but was not set.")>>
         ELSE <<>>)
      \o (IF DOMAIN a \ allowed # {}
            THEN <<Diag("Unsupported argument",
                        "An argument of this name is not expected here.")>>
            ELSE <<>>)
      \o (IF \E i \in 1..Len(bs) : bs[i].Type # "content"
            THEN <<Diag("Unsupported block type",
                        "Blocks of this type are not expected here.")>>
            ELSE <<>>)

\* lines 53-60 and 65-72: the two diagnostics of the for_each value
DynamicNotIterable(eachVal) ==
  Diag("Invalid dynamic for_each value",
       "Cannot use a " \o FriendlyName(eachVal.ty)
         \o " value in for_each. An iterable collection is required.")
DynamicNullForEach ==
  Diag("Invalid dynamic for_each value", "Cannot use a null value in for_each.")

\* the dynamic type is given no exception from the test for iterability
ForEachDiagsDynamicRejected(eachVal) ==
  LET unmarkedEachVal == Unmark(eachVal)
  IN  IF ~CanIterateElements(unmarkedEachVal)
        THEN <<DynamicNotIterable(eachVal)>>
      ELSE IF IsNull(unmarkedEachVal)
        THEN <<DynamicNullForEach>>
      ELSE <<>>

\* the value is tested with its marks on
ForEachDiagsMarkedRejected(eachVal) ==
  IF ~CanIterateElements(eachVal) /\ eachVal.ty # "dynamic"
    THEN <<DynamicNotIterable(eachVal)>>
  ELSE IF IsNull(eachVal)
    THEN <<DynamicNullForEach>>
  ELSE <<>>

\* the test for null made before the test for iterability
ForEachDiagsNullFirst(eachVal) ==
  LET unmarkedEachVal == Unmark(eachVal)
  IN  IF IsNull(unmarkedEachVal)
        THEN <<DynamicNullForEach>>
      ELSE IF ~CanIterateElements(unmarkedEachVal) /\ unmarkedEachVal.ty # "dynamic"
        THEN <<DynamicNotIterable(eachVal)>>
      ELSE <<>>

\* lines 48-74: the for_each value without its marks must be iterable or of
\* dynamic type, and not null; the diagnostic of the check it fails
DynamicForEachDiags(eachVal) ==
  LET unmarkedEachVal == Unmark(eachVal)
  IN  IF ~CanIterateElements(unmarkedEachVal) /\ unmarkedEachVal.ty # "dynamic"
        THEN <<DynamicNotIterable(eachVal)>>
      ELSE IF IsNull(unmarkedEachVal)
        THEN <<DynamicNullForEach>>
      ELSE <<>>

\* a traversal of any length accepted, its root taken as the name
DynamicIteratorRootOfAny(blockS, attrs) ==
  IF "iterator" \notin DOMAIN attrs
    THEN [name |-> blockS.Type, diags |-> <<>>]
  ELSE IF attrs["iterator"].e # "trav"
    THEN [name |-> "", diags |-> <<Diag("Invalid expression",
                                        "A static variable reference is required.")>>]
  ELSE [name |-> attrs["iterator"].root, diags |-> <<>>]

\* lines 78-97: the iterator name, or the diagnostics that end the decoding
DynamicIterator(blockS, attrs) ==
  IF "iterator" \notin DOMAIN attrs
    THEN [name |-> blockS.Type, diags |-> <<>>]
  ELSE IF attrs["iterator"].e # "trav"
    THEN [name |-> "", diags |-> <<Diag("Invalid expression",
                                        "A static variable reference is required.")>>]
  ELSE IF attrs["iterator"].attr # ""
    THEN [name |-> "", diags |-> <<Diag("Invalid dynamic iterator name",
                                        "Dynamic iterator must be a single variable name.")>>]
  ELSE [name |-> attrs["iterator"].root, diags |-> <<>>]

\* the test for too few label expressions left out
DynamicLabelsAtMost(blockS, attrs) ==
  IF "labels" \notin DOMAIN attrs THEN [exprs |-> <<>>, diags |-> <<>>]
  ELSE IF attrs["labels"].e # "list"
    THEN [exprs |-> <<>>, diags |-> <<Diag("Invalid expression",
                                           "A static list expression is required.")>>]
  ELSE IF Len(attrs["labels"].items) > Len(blockS.LabelNames)
    THEN [exprs |-> attrs["labels"].items,
          diags |-> <<Diag("Extraneous dynamic block label",
                           "Blocks of type \"" \o blockS.Type \o "\" require "
                             \o ToString(Len(blockS.LabelNames)) \o " label(s).")>>]
  ELSE [exprs |-> attrs["labels"].items, diags |-> <<>>]

\* lines 99-125: the label expressions, or the diagnostics that end the decoding
DynamicLabels(blockS, attrs) ==
  IF "labels" \notin DOMAIN attrs THEN [exprs |-> <<>>, diags |-> <<>>]
  ELSE IF attrs["labels"].e # "list"
    THEN [exprs |-> <<>>, diags |-> <<Diag("Invalid expression",
                                           "A static list expression is required.")>>]
  ELSE IF Len(attrs["labels"].items) > Len(blockS.LabelNames)
    THEN [exprs |-> attrs["labels"].items,
          diags |-> <<Diag("Extraneous dynamic block label",
                           "Blocks of type \"" \o blockS.Type \o "\" require "
                             \o ToString(Len(blockS.LabelNames)) \o " label(s).")>>]
  ELSE IF Len(attrs["labels"].items) < Len(blockS.LabelNames)
    THEN [exprs |-> attrs["labels"].items,
          diags |-> <<Diag("Insufficient dynamic block labels",
                           "Blocks of type \"" \o blockS.Type \o "\" require "
                             \o ToString(Len(blockS.LabelNames)) \o " label(s).")>>]
  ELSE [exprs |-> attrs["labels"].items, diags |-> <<>>]

\* the content blocks after the first are ignored
DynamicContentDiagsFirstOnly(blocks) ==
  IF Len(blocks) = 0
    THEN <<Diag("Missing dynamic content block",
                "A dynamic block must have a nested block of type \"content\" to describe the body of each generated block.")>>
  ELSE <<>>

\* lines 127-146: exactly one content block
DynamicContentDiags(blocks) ==
  IF Len(blocks) = 0
    THEN <<Diag("Missing dynamic content block",
                "A dynamic block must have a nested block of type \"content\" to describe the body of each generated block.")>>
  ELSE IF Len(blocks) > 1
    THEN <<DiagAt("Extraneous dynamic content block",
                  "Only one nested content block is allowed for each dynamic block.",
                  <<blocks[2].DefRange>>)>>
  ELSE <<>>

\* the for_each expression evaluated without the variables in scope
DynamicForEachValueNoCtx(attrs, c) == Value(attrs["for_each"], EmptyCtx)

\* lines 44-46: the for_each expression evaluated in the context of the body
DynamicForEachValue(attrs, c) == Value(attrs["for_each"], c)

\* the decoding ends when the for_each expression fails to evaluate
decodeDynamicSpecStopsOnEvalError(blockS, rawSpec, c) ==
  LET specDiags == DynamicSchemaDiags(blockS, rawSpec)
  IN
  IF HasErrors(specDiags) THEN [spec |-> <<>>, diags |-> specDiags]
  ELSE
    LET attrs == rawSpec.Body.attrs
        each == DynamicForEachValue(attrs, c)
        eachVal == each.val
        eachDiags == DynamicForEachDiags(eachVal)
        it == DynamicIterator(blockS, attrs)
        lb == DynamicLabels(blockS, attrs)
        cd == DynamicContentDiags(rawSpec.Body.blocks)
    IN
    IF each.err THEN [spec |-> <<>>, diags |-> specDiags \o <<EvalDiag>>]
    ELSE IF eachDiags # <<>> THEN [spec |-> <<>>, diags |-> specDiags \o eachDiags]
    ELSE IF it.diags # <<>> THEN [spec |-> <<>>, diags |-> specDiags \o it.diags]
    ELSE IF lb.diags # <<>> THEN [spec |-> <<>>, diags |-> specDiags \o lb.diags]
    ELSE IF cd # <<>> THEN [spec |-> <<>>, diags |-> specDiags \o cd]
    ELSE [spec |-> <<[blockType |-> blockS.Type,
                      defRange |-> rawSpec.DefRange,
                      forEachVal |-> eachVal,
                      iteratorName |-> it.name,
                      labelExprs |-> lb.exprs,
                      contentBody |-> rawSpec.Body.blocks[1].Body]>>,
          diags |-> specDiags]

\* lines 26-157
decodeDynamicSpec(blockS, rawSpec, c) ==
  LET specDiags == DynamicSchemaDiags(blockS, rawSpec)
  IN
  IF HasErrors(specDiags) THEN [spec |-> <<>>, diags |-> specDiags]
  ELSE
    LET attrs == rawSpec.Body.attrs
        each == DynamicForEachValue(attrs, c)
        eachVal == each.val
        d1 == specDiags \o (IF each.err THEN <<EvalDiag>> ELSE <<>>)
        eachDiags == DynamicForEachDiags(eachVal)
        it == DynamicIterator(blockS, attrs)
        lb == DynamicLabels(blockS, attrs)
        cd == DynamicContentDiags(rawSpec.Body.blocks)
    IN
    IF eachDiags # <<>> THEN [spec |-> <<>>, diags |-> d1 \o eachDiags]
    ELSE IF it.diags # <<>> THEN [spec |-> <<>>, diags |-> d1 \o it.diags]
    ELSE IF lb.diags # <<>> THEN [spec |-> <<>>, diags |-> d1 \o lb.diags]
    ELSE IF cd # <<>> THEN [spec |-> <<>>, diags |-> d1 \o cd]
    ELSE [spec |-> <<[blockType |-> blockS.Type,
                      defRange |-> rawSpec.DefRange,
                      forEachVal |-> eachVal,
                      iteratorName |-> it.name,
                      labelExprs |-> lb.exprs,
                      contentBody |-> rawSpec.Body.blocks[1].Body]>>,
          diags |-> d1]

(***************************************************************************)
(* newBlock.                                                               *)
(***************************************************************************)
\* an unknown label reported as an error, as hcl/ext/dynblock does
labelStepUnknownIsError(labelExpr, lCtx) ==
  LET lv == Value(labelExpr, lCtx)
      conv == ConvertString(lv.val)
  IN  IF lv.err THEN [kind |-> "error", label |-> "", diags |-> <<EvalDiag>>]
      ELSE IF ~conv.ok \/ IsNull(conv.val) \/ ~IsKnown(conv.val) \/ IsMarked(conv.val)
        THEN [kind |-> "error", label |-> "",
              diags |-> <<Diag("Invalid dynamic block label",
                               "This value is not suitable as a block label.")>>]
      ELSE [kind |-> "label", label |-> conv.val.s, diags |-> <<>>]

\* a label that is not a string already is refused instead of converted
labelStepNoConvert(labelExpr, lCtx) ==
  LET lv == Value(labelExpr, lCtx)
  IN  IF lv.err THEN [kind |-> "error", label |-> "", diags |-> <<EvalDiag>>]
      ELSE IF lv.val.ty # "string"
        THEN [kind |-> "error", label |-> "",
              diags |-> <<Diag("Invalid dynamic block label",
                               "Cannot use this value as a dynamic block label: string required.")>>]
      ELSE IF IsNull(lv.val)
        THEN [kind |-> "error", label |-> "",
              diags |-> <<Diag("Invalid dynamic block label",
                               "Cannot use a null value as a dynamic block label.")>>]
      ELSE IF ~IsKnown(lv.val)
        THEN [kind |-> "skip", label |-> "", diags |-> <<>>]
      ELSE IF IsMarked(lv.val)
        THEN [kind |-> "error", label |-> "",
              diags |-> <<Diag("Invalid dynamic block label",
                               "This value has dynamic marks that make it unsuitable for use as a block label.")>>]
      ELSE [kind |-> "label", label |-> lv.val.s, diags |-> <<>>]

\* the marks of a label value stripped, the string made a label of
labelStepUnmarks(labelExpr, lCtx) ==
  LET lv == Value(labelExpr, lCtx)
      conv == ConvertString(lv.val)
  IN  IF lv.err THEN [kind |-> "error", label |-> "", diags |-> <<EvalDiag>>]
      ELSE IF ~conv.ok
        THEN [kind |-> "error", label |-> "",
              diags |-> <<Diag("Invalid dynamic block label",
                               "Cannot use this value as a dynamic block label: string required.")>>]
      ELSE IF IsNull(conv.val)
        THEN [kind |-> "error", label |-> "",
              diags |-> <<Diag("Invalid dynamic block label",
                               "Cannot use a null value as a dynamic block label.")>>]
      ELSE IF ~IsKnown(conv.val)
        THEN [kind |-> "skip", label |-> "", diags |-> <<>>]
      ELSE [kind |-> "label", label |-> conv.val.s, diags |-> <<>>]

\* lines 165-224, one turn of the loop over the label expressions: the
\* label, or the return of nil with ("error") or without ("skip") a diagnostic
labelStep(labelExpr, lCtx) ==
  LET lv == Value(labelExpr, lCtx)
      conv == ConvertString(lv.val)
  IN  IF lv.err THEN [kind |-> "error", label |-> "", diags |-> <<EvalDiag>>]
      ELSE IF ~conv.ok
        THEN [kind |-> "error", label |-> "",
              diags |-> <<Diag("Invalid dynamic block label",
                               "Cannot use this value as a dynamic block label: string required.")>>]
      ELSE IF IsNull(conv.val)
        THEN [kind |-> "error", label |-> "",
              diags |-> <<Diag("Invalid dynamic block label",
                               "Cannot use a null value as a dynamic block label.")>>]
      ELSE IF ~IsKnown(conv.val)
        THEN [kind |-> "skip", label |-> "", diags |-> <<>>]
      ELSE IF IsMarked(conv.val)
        THEN [kind |-> "error", label |-> "",
              diags |-> <<Diag("Invalid dynamic block label",
                               "This value has dynamic marks that make it unsuitable for use as a block label.")>>]
      ELSE [kind |-> "label", label |-> conv.val.s, diags |-> <<>>]

\* the block built without the range of the directive it comes from
synthBlockNoRange(s, labels) == Block(s.blockType, labels, 0, s.contentBody)

\* lines 227-236: the block of one iteration
synthBlock(s, labels) == Block(s.blockType, labels, s.defRange, s.contentBody)

\* a label that cannot be used is left out and the block is built without it
RECURSIVE newBlockFromPartial(_, _, _, _, _)
newBlockFromPartial(s, lCtx, n, labels, diags) ==
  IF n > Len(s.labelExprs)
    THEN [block |-> <<synthBlock(s, labels)>>, diags |-> diags]
  ELSE
    LET st == labelStep(s.labelExprs[n], lCtx)
    IN  newBlockFromPartial(s, lCtx, n + 1,
          IF st.kind = "label" THEN Append(labels, st.label) ELSE labels,
          diags \o st.diags)

\* lines 162-236: the loop over the label expressions, from label n on
RECURSIVE newBlockFrom(_, _, _, _, _)
newBlockFrom(s, lCtx, n, labels, diags) ==
  IF n > Len(s.labelExprs)
    THEN [block |-> <<synthBlock(s, labels)>>, diags |-> diags]
  ELSE
    LET st == labelStep(s.labelExprs[n], lCtx)
    IN  IF st.kind = "label"
          THEN newBlockFrom(s, lCtx, n + 1, Append(labels, st.label), diags \o st.diags)
        ELSE [block |-> <<>>, diags |-> diags \o st.diags]

newBlock(s, i, c) == newBlockFrom(s, EvalContext(i, c), 1, <<>>, <<>>)


(***************************************************************************)
(* decodeMetaArgSpec.  evaluated lists the attributes whose expression     *)
(* was evaluated (Expr.Value at lines 263 and 328), in order.              *)
(***************************************************************************)
ZeroMetaArgSpec ==
  [countSet |-> FALSE, countVal |-> NilVal, countNum |-> 0,
   forEachSet |-> FALSE, forEachVal |-> NilVal]

\* cty.Type.GoString and cty.Value.GoString, as far as the diagnostics show them
TypeGoString(ty) ==
  CASE ty = "string" -> "cty.String"
    [] ty = "number" -> "cty.Number"
    [] ty = "bool" -> "cty.Bool"
    [] ty = "dynamic" -> "cty.DynamicPseudoType"
    [] ty = "list" -> "cty.List(cty.String)"
    [] ty = "map" -> "cty.Map(cty.String)"
    [] OTHER -> "cty." \o ty
GoString(v) ==
  (CASE v.k = "null" -> "cty.NullVal(" \o TypeGoString(v.ty) \o ")"
     [] v.k = "unknown" -> "cty.UnknownVal(" \o TypeGoString(v.ty) \o ")"
     [] v.ty = "string" -> "cty.StringVal(\"" \o v.s \o "\")"
     [] v.ty = "number" -> "cty.NumberIntVal(" \o FormatNumber(v.n) \o ")"
     [] v.ty = "bool" -> IF v.s = "true" THEN "cty.True" ELSE "cty.False"
     [] OTHER -> TypeGoString(v.ty) \o "Val")
  \o (IF IsMarked(v) THEN ".WithMarks" ELSE "")

\* count validated although unknown: the unknown value fails the conversion
CountChecksValidateUnknown(countVal) ==
  IF IsNull(countVal)
    THEN [diags |-> <<Diag("Invalid count argument",
                           "The given \"count\" argument value is null. An integer is required.")>>,
          countNum |-> 0]
  ELSE IF ~IsKnown(countVal) \/ ~ConvertNumber(countVal).ok
    THEN [diags |-> <<Diag("Incorrect value type",
                           "Invalid expression value: a number is required.")>>,
          countNum |-> 0]
  ELSE [diags |-> <<>>, countNum |-> FromCtyValueInt(ConvertNumber(countVal).val).num]

\* count validated without the test for a negative number
CountChecksAllowNegative(countVal) ==
  IF ~IsKnown(countVal) THEN [diags |-> <<>>, countNum |-> 0]
  ELSE IF IsNull(countVal)
    THEN [diags |-> <<Diag("Invalid count argument",
                           "The given \"count\" argument value is null. An integer is required.")>>,
          countNum |-> 0]
  ELSE IF ~ConvertNumber(countVal).ok
    THEN [diags |-> <<Diag("Incorrect value type",
                           "Invalid expression value: a number is required.")>>,
          countNum |-> 0]
  ELSE [diags |-> <<>>, countNum |-> FromCtyValueInt(ConvertNumber(countVal).val).num]

\* lines 270-320: the validation of the unmarked count value; the
\* diagnostic that ends the decoding, and what countNum is left at
CountChecks(countVal) ==
  IF ~IsKnown(countVal) THEN [diags |-> <<>>, countNum |-> 0]
  ELSE IF IsNull(countVal)
    THEN [diags |-> <<Diag("Invalid count argument",
                           "The given \"count\" argument value is null. An integer is required.")>>,
          countNum |-> 0]
  ELSE IF ~ConvertNumber(countVal).ok
    THEN [diags |-> <<Diag("Incorrect value type",
                           "Invalid expression value: a number is required.")>>,
          countNum |-> 0]
  ELSE IF ~FromCtyValueInt(ConvertNumber(countVal).val).ok
    THEN [diags |-> <<Diag("Invalid count argument",
                           "The given \"count\" argument value is unsuitable: value must be a whole number, between -9223372036854775808 and 9223372036854775807 inclusive.")>>,
          countNum |-> 0]
  ELSE IF FromCtyValueInt(ConvertNumber(countVal).val).num < 0
    THEN [diags |-> <<Diag("Invalid count argument",
                           "The given \"count\" argument value is unsuitable: negative numbers are not supported.")>>,
          countNum |-> FromCtyValueInt(ConvertNumber(countVal).val).num]
  ELSE [diags |-> <<>>, countNum |-> FromCtyValueInt(ConvertNumber(countVal).val).num]

\* lines 336-343 and 357-364: the two diagnostics of the for_each value (the
\* backquotes of the source's texts are written as apostrophes)
MetaArgNotIterable(eachVal) ==
  Diag("The 'for_each' value is not iterable",
       "'" \o GoString(eachVal) \o "' is not iterable")
MetaArgNullForEach ==
  Diag("Invalid for_each argument",
       "The given \"for_each\" argument value is unsuitable: the given \"for_each\" argument value is null. A map, or set of strings is allowed.")

\* lines 333-366: the validation of the for_each value, which keeps its marks
MetaArgForEachDiags(eachVal) ==
  IF ~CanIterateElements(eachVal) /\ eachVal.ty # "dynamic"
    THEN <<MetaArgNotIterable(eachVal)>>
  ELSE IF IsNull(eachVal)
    THEN <<MetaArgNullForEach>>
  ELSE <<>>

\* for_each left alone once count is set
MetaArgForEachSkippedAfterCount(r, attrs, c) ==
  IF "for_each" \notin DOMAIN attrs \/ r.spec.countSet THEN r
  ELSE
    LET each == Value(attrs["for_each"], c)
    IN  [spec |-> [r.spec EXCEPT !.forEachSet = TRUE, !.forEachVal = each.val],
         diags |-> r.diags \o (IF each.err THEN <<EvalDiag>> ELSE <<>>)
                     \o MetaArgForEachDiags(each.val),
         evaluated |-> Append(r.evaluated, "for_each")]

\* lines 325-369: the for_each attribute, after the count attribute passed
MetaArgForEach(r, attrs, c) ==
  IF "for_each" \notin DOMAIN attrs THEN r
  ELSE
    LET each == Value(attrs["for_each"], c)
    IN  [spec |-> [r.spec EXCEPT !.forEachSet = TRUE, !.forEachVal = each.val],
         diags |-> r.diags \o (IF each.err THEN <<EvalDiag>> ELSE <<>>)
                     \o MetaArgForEachDiags(each.val),
         evaluated |-> Append(r.evaluated, "for_each")]

decodeMetaArgSpec(rawSpec, c) ==
  LET attrs == rawSpec.Body.attrs
      r0 == [spec |-> ZeroMetaArgSpec, diags |-> <<>>, evaluated |-> <<>>]
  IN
  IF "count" \in DOMAIN attrs
    THEN
      LET cnt == Value(attrs["count"], c)
          countVal == Unmark(cnt.val)
          chk == CountChecks(countVal)
          r1 == [spec |-> [ZeroMetaArgSpec EXCEPT !.countSet = TRUE,
                                                  !.countVal = countVal,
                                                  !.countNum = chk.countNum],
                 diags |-> (IF cnt.err THEN <<EvalDiag>> ELSE <<>>) \o chk.diags,
                 evaluated |-> <<"count">>]
      IN  IF chk.diags # <<>> THEN r1 ELSE MetaArgForEach(r1, attrs, c)
  ELSE MetaArgForEach(r0, attrs, c)


(***************************************************************************)
(* The expander (expandBody): the walk over the blocks of a body that      *)
(* keeps literal blocks and replaces each dynamic directive by the blocks  *)
(* it generates.  b is the expandBody: the source body, the iteration it   *)
(* is nested in, the marks its values carry and whether it stands for an   *)
(* unknown for_each.  An expanded block is a block with the expandBody     *)
(* state of its own body.                                                  *)
(***************************************************************************)
ExpandBody(src, iteration, valueMarks, unknown) ==
  [src |-> src, iteration |-> iteration, valueMarks |-> valueMarks,
   unknown |-> unknown]

\* Expand: the root expandBody of a source body
Expand(src) == ExpandBody(src, NilIteration, {}, FALSE)

Expanded(blk, iteration, valueMarks, unknown, synthetic) ==
  [Type |-> blk.Type, Labels |-> blk.Labels, DefRange |-> blk.DefRange,
   Body |-> blk.Body, iteration |-> iteration, valueMarks |-> valueMarks,
   unknown |-> unknown, synthetic |-> synthetic]

\* expandChild: the expandBody of an expanded block's body
expandChild(xb) == ExpandBody(xb.Body, xb.iteration, xb.valueMarks, xb.unknown)

RECURSIVE Flatten(_)
Flatten(rs) ==
  IF rs = <<>> THEN [blocks |-> <<>>, diags |-> <<>>]
  ELSE LET rest == Flatten(Tail(rs))
       IN  [blocks |-> Head(rs).blocks \o rest.blocks,
            diags |-> Head(rs).diags \o rest.diags]

\* the iterations of a decoded directive, in iteration order: one for each
\* element of a known for_each (bound to unknown when the for_each is
\* marked), one bound to unknown for an unknown for_each
Iterations(b, spec) ==
  LET forEachVal == Unmark(spec.forEachVal)
  IN  IF ~IsKnown(forEachVal)
        THEN <<MakeChild(b.iteration, spec.iteratorName, DynamicVal, DynamicVal)>>
      ELSE IF IsMarked(spec.forEachVal)
        THEN [k \in 1..Len(Elements(forEachVal)) |->
                MakeChild(b.iteration, spec.iteratorName, DynamicVal, DynamicVal)]
      ELSE [k \in 1..Len(Elements(forEachVal)) |->
              MakeChild(b.iteration, spec.iteratorName,
                        Elements(forEachVal)[k].key, Elements(forEachVal)[k].value)]

\* the blocks one decoded directive generates: newBlock for each iteration,
\* a nil block left out and its diagnostics kept
Generated(b, spec, c) ==
  Flatten([k \in 1..Len(Iterations(b, spec)) |->
    LET i == Iterations(b, spec)[k]
        r == newBlock(spec, i, c)
    IN  [blocks |-> IF r.block = <<>> THEN <<>>
                    ELSE <<Expanded(r.block[1], i,
                                    b.valueMarks \cup spec.forEachVal.marks,
                                    b.unknown \/ ~IsKnown(spec.forEachVal), TRUE)>>,
         diags |-> r.diags]])

UnsupportedBlockDiag ==
  Diag("Unsupported block type", "Blocks of this type are not expected here.")

\* a literal block passed through without its labels
expandBlockLiteralUnlabelled(b, rawBlock, blockS, c, partial) ==
  IF rawBlock.Type = "dynamic"
    THEN
      IF rawBlock.Labels[1] # blockS.Type
        THEN [blocks |-> <<>>,
              diags |-> IF partial THEN <<>> ELSE <<UnsupportedBlockDiag>>]
      ELSE
        LET d == decodeDynamicSpec(blockS, rawBlock, EvalContext(b.iteration, c))
        IN  IF HasErrors(d.diags) THEN [blocks |-> <<>>, diags |-> d.diags]
            ELSE LET g == Generated(b, d.spec[1], c)
                 IN  [blocks |-> g.blocks, diags |-> d.diags \o g.diags]
  ELSE IF rawBlock.Type = blockS.Type
    THEN [blocks |-> <<Expanded([rawBlock EXCEPT !.Labels = <<>>],
                                b.iteration, b.valueMarks, b.unknown, FALSE)>>,
          diags |-> <<>>]
  ELSE [blocks |-> <<>>,
        diags |-> IF partial THEN <<>> ELSE <<UnsupportedBlockDiag>>]

\* what one block of the source contributes to the blocks of type blockS.Type
expandBlock(b, rawBlock, blockS, c, partial) ==
  IF rawBlock.Type = "dynamic"
    THEN
      IF rawBlock.Labels[1] # blockS.Type
        THEN [blocks |-> <<>>,
              diags |-> IF partial THEN <<>> ELSE <<UnsupportedBlockDiag>>]
      ELSE
        LET d == decodeDynamicSpec(blockS, rawBlock, EvalContext(b.iteration, c))
        IN  IF HasErrors(d.diags) THEN [blocks |-> <<>>, diags |-> d.diags]
            ELSE LET g == Generated(b, d.spec[1], c)
                 IN  [blocks |-> g.blocks, diags |-> d.diags \o g.diags]
  ELSE IF rawBlock.Type = blockS.Type
    THEN [blocks |-> <<Expanded(rawBlock, b.iteration, b.valueMarks, b.unknown, FALSE)>>,
          diags |-> <<>>]
  ELSE [blocks |-> <<>>,
        diags |-> IF partial THEN <<>> ELSE <<UnsupportedBlockDiag>>]

\* expandBody.Content (partial = FALSE) and PartialContent (partial = TRUE)
\* for a schema of one block type: the expanded blocks in source order
Content(b, blockS, c, partial) ==
  Flatten([k \in 1..Len(b.src.blocks) |->
             expandBlock(b, b.src.blocks[k], blockS, c, partial)])

\* the decoding of attribute name of an expanded block as a string
\* (hcldec.AttrSpec): null when absent, unknown in a placeholder
DecodeAttr(xb, name, c) ==
  IF xb.unknown THEN [val |-> UnknownVal("string"), err |-> FALSE]
  ELSE IF name \notin DOMAIN xb.Body.attrs
    THEN [val |-> NullVal("string"), err |-> FALSE]
  ELSE LET v == Value(xb.Body.attrs[name], EvalContext(xb.iteration, c))
       IN  IF v.err \/ ~ConvertString(v.val).ok
             THEN [val |-> DynamicVal, err |-> TRUE]
           ELSE [val |-> ConvertString(v.val).val, err |-> FALSE]

\* the decoded content value of an expanded block (hcldec.ObjectSpec over
\* the attributes names): the object of its attributes, with the marks of
\* the for_each values it came from
ContentValue(xb, names, c) ==
  WithMarks(ObjectVal(names, [k \in 1..Len(names) |-> DecodeAttr(xb, names[k], c).val]),
            xb.valueMarks)


(***************************************************************************)
(* The input bodies.  MkBody gives each block its definition range, its    *)
(* position in the body.                                                   *)
(***************************************************************************)
MkBody(attrs, items) ==
  Body(attrs, [k \in 1..Len(items) |-> [items[k] EXCEPT !.DefRange = k]])

LitBlock(type, labels, attrs, items) == Block(type, labels, 0, MkBody(attrs, items))
DynBlock(type, attrs, items) == Block("dynamic", <<type>>, 0, MkBody(attrs, items))
ContentBlock(attrs, items) == Block("content", <<>>, 0, MkBody(attrs, items))

\* the block header schemas of the tests: "a" blocks carry one label
Types == {"a", "b", "c", "d"}
SchemaOf(type) ==
  BlockHeaderSchema(type, CASE type = "a" -> <<"key">>
                            [] type = "d" -> <<"k1", "k2">>
                            [] OTHER -> <<>>)

\* element i of a drawn collection: a string, an unknown string, a null
\* string or a marked string
Kinds == {"s", "u", "n", "m"}
ElemOf(kind, i) ==
  CASE kind = "s" -> StringVal("e" \o ToString(i - 1))
    [] kind = "u" -> UnknownVal("string")
    [] kind = "n" -> NullVal("string")
    [] OTHER -> Mark(StringVal("e" \o ToString(i - 1)), "boop")

Strings(n) == [i \in 1..n |-> StringVal("e" \o ToString(i - 1))]
MapKeys(n) == [i \in 1..n |-> "k" \o ToString(i)]

Lists ==
  UNION {{ListVal([i \in 1..n |-> ElemOf(ks[i], i)]) : ks \in [1..n -> Kinds]} :
         n \in 0..MaxLen}
Maps == {MapVal(MapKeys(n), Strings(n)) : n \in 0..MaxLen}
Tuples == {TupleVal(Strings(n)) : n \in 1..MaxLen}

Collections == Lists \cup Maps \cup Tuples
Scalars ==
  {StringVal("x"), StringVal("2"), NumberIntVal(1), BoolVal(TRUE),
   NullVal("dynamic"), NullVal("string"), NullVal("list"),
   DynamicVal, UnknownVal("string"), UnknownVal("list")}
MarkedVals ==
  {Mark(v, "boop") : v \in {ListVal(Strings(n)) : n \in 0..MaxLen}
                          \cup {StringVal("x"), NullVal("dynamic"), NullVal("string"),
                                DynamicVal, UnknownVal("list")}}

ForEachExprs == {Lit(v) : v \in Collections \cup Scalars \cup MarkedVals} \cup {BadExpr}

\* the labels attribute of a drawn dynamic "a" block: one expression, the
\* wrong number of expressions, or no list at all
LabelExprs ==
  {Trav("a", "key"), Trav("a", "value"), Trav("other", "key"), BadExpr}
    \cup {Lit(v) : v \in {StringVal("x"), NumberIntVal(1), NullVal("string"),
                          UnknownVal("string"), DynamicVal, UnknownVal("list"),
                          Mark(StringVal("x"), "boop"), Mark(DynamicVal, "boop"),
                          Mark(NullVal("string"), "boop"),
                          Mark(UnknownVal("string"), "boop"),
                          Mark(ListVal(<<>>), "boop"), ListVal(<<>>)}}
LabelsAttrs ==
  {ExprListOf(<<l>>) : l \in LabelExprs}
    \cup {ExprListOf(<<>>), ExprListOf(<<Trav("a", "key"), Lit(StringVal("x"))>>),
          Lit(StringVal("x"))}

StaticA(label) ==
  LitBlock("a", <<label>>, "val" :> Lit(StringVal("static " \o label)), <<>>)

DynA(forEach, labelsAttr) ==
  DynBlock("a", "for_each" :> forEach @@ "labels" :> labelsAttr,
           <<ContentBlock("val" :> Trav("a", "value"), <<>>)>>)

\* one directive between two literal blocks: every for_each under a label
\* from the iterator, and every labels attribute under a plain for_each
SingleBodies ==
  {MkBody(NoAttrs, <<StaticA("static0"), DynA(fe, la), StaticA("static1")>>) :
     fe \in ForEachExprs,
     la \in {ExprListOf(<<Trav("a", "key")>>), ExprListOf(<<Trav("a", "value")>>),
             ExprListOf(<<Lit(StringVal("x"))>>)}}
  \cup
  {MkBody(NoAttrs, <<StaticA("static0"), DynA(Lit(fe), la), StaticA("static1")>>) :
     fe \in {ListVal(Strings(MaxLen)), MapVal(MapKeys(MaxLen), Strings(MaxLen))},
     la \in LabelsAttrs}

\* a directive for blocks of two labels
TwoLabelBodies ==
  LET ls == {Trav("d", "key"), Trav("d", "value"), Lit(NullVal("string")),
             Lit(UnknownVal("string")), Lit(Mark(StringVal("x"), "boop"))}
  IN  {MkBody(NoAttrs,
         <<DynBlock("d", "for_each" :> Lit(ListVal(<<StringVal("e0"), UnknownVal("string")>>))
                           @@ "labels" :> ExprListOf(<<l1, l2>>),
             <<ContentBlock("val" :> Trav("d", "value"), <<>>)>>)>>) :
         l1 \in ls, l2 \in ls}
      \cup
      {MkBody(NoAttrs,
         <<DynBlock("d", "for_each" :> Lit(ListVal(<<StringVal("e0")>>))
                           @@ "labels" :> ExprListOf(items),
             <<ContentBlock("val" :> Trav("d", "value"), <<>>)>>)>>) :
         items \in {<<Trav("d", "key")>>,
                    <<Trav("d", "key"), Trav("d", "value"), Lit(StringVal("x"))>>}}

\* the shapes of a directive: its iterator, its content blocks, its attributes
ShapeBodies ==
  LET fe == Lit(ListVal(Strings(MaxLen)))
      content == ContentBlock("val" :> Trav("it", "value"), <<>>)
      other == LitBlock("other", <<>>, NoAttrs, <<>>)
      attrs == {"for_each" :> fe @@ "iterator" :> it :
                  it \in {Var("it"), Trav("it", "value"), Lit(StringVal("it"))}}
               \cup {"for_each" :> fe @@ "labels" :> ExprListOf(<<>>),
                     "iterator" :> Var("it"), "for_each" :> fe, NoAttrs,
                     "for_each" :> fe @@ "extra" :> fe}
  IN  {MkBody(NoAttrs, <<DynBlock("b", a, cs)>>) :
         a \in attrs, cs \in {<<>>, <<content>>, <<content, content>>,
                             <<content, content, content>>, <<other>>}}

\* two directives on either side of a literal block, each with a for_each
\* that is used, refused, or has an element that makes no label
SiblingForEachExprs ==
  {Lit(ListVal(<<StringVal("e0"), StringVal("e1")>>)),
   Lit(ListVal(<<StringVal("e0"), NullVal("string")>>)),
   Lit(NullVal("list")), Lit(StringVal("x")), BadExpr}
SiblingBodies ==
  {MkBody(NoAttrs,
     <<DynA(fe1, ExprListOf(<<Trav("a", "value")>>)), StaticA("static0"),
       DynA(fe2, ExprListOf(<<Trav("a", "value")>>))>>) :
     fe1 \in SiblingForEachExprs, fe2 \in SiblingForEachExprs}

\* the blocks the order family is drawn from
Palette ==
  {StaticA("static0"), StaticA("static1"),
   LitBlock("b", <<>>, "val" :> Lit(StringVal("static b")), <<>>),
   DynA(Lit(ListVal(Strings(MaxLen))), ExprListOf(<<Trav("a", "key")>>)),
   DynA(Lit(MapVal(MapKeys(MaxLen), Strings(MaxLen))), ExprListOf(<<Trav("a", "key")>>)),
   DynA(Lit(ListVal(<<>>)), ExprListOf(<<Trav("a", "key")>>)),
   DynA(Lit(ListVal(<<StringVal("e0"), UnknownVal("string")>>)),
        ExprListOf(<<Trav("a", "value")>>)),
   DynBlock("b", "for_each" :> Lit(ListVal(Strings(MaxLen))),
            <<ContentBlock("val" :> Trav("b", "value"), <<>>)>>)}

OrderBodies ==
  UNION {{MkBody(NoAttrs, items) : items \in [1..n -> Palette]} : n \in 1..MaxBlocks}

\* a dynamic "c" nested in the content of a dynamic "b", next to a literal "c"
InnerForEachExprs(outerName) ==
  {Lit(ListVal(Strings(n))) : n \in 0..MaxLen}
    \cup {Trav(outerName, "value"), Trav(outerName, "key"),
          Lit(Mark(ListVal(Strings(1)), "boop")), Lit(DynamicVal)}

OuterForEachVals ==
  {ListVal(Strings(n)) : n \in 1..MaxLen}
    \cup {MapVal(MapKeys(n), [i \in 1..n |-> ListVal(Strings(i))]) : n \in 1..MaxLen}
    \cup {ListVal(<<ListVal(Strings(MaxLen)), ListVal(<<>>)>>),
          Mark(TupleVal(Strings(1)), "boop"), DynamicVal}

NestedBlock(outerFe, outerIt, innerFe, innerIt) ==
  LET outerName == IF outerIt = "" THEN "b" ELSE outerIt
      innerName == IF innerIt = "" THEN "c" ELSE innerIt
      itAttr(name) == IF name = "" THEN NoAttrs ELSE "iterator" :> Var(name)
  IN  DynBlock("b", "for_each" :> outerFe @@ itAttr(outerIt),
        <<ContentBlock("val0" :> Lit(StringVal("static b 1"))
                         @@ "val1" :> Trav(outerName, "value"),
            <<LitBlock("c", <<>>, "val0" :> Lit(StringVal("static c 1"))
                                    @@ "val1" :> Trav(outerName, "value"), <<>>),
              DynBlock("c", "for_each" :> innerFe @@ itAttr(innerIt),
                <<ContentBlock("val0" :> Trav(innerName, "value")
                                 @@ "val1" :> Trav(outerName, "value")
                                 @@ "val2" :> Trav(outerName, "key"), <<>>)>>)>>)>>)

NestedBodies ==
  UNION {{MkBody(NoAttrs, <<NestedBlock(Lit(o), names[1], inner, names[2])>>) :
            o \in OuterForEachVals,
            inner \in InnerForEachExprs(IF names[1] = "" THEN "b" ELSE names[1])} :
         names \in {<<"dyn_b", "">>, <<"", "">>, <<"dyn_b", "dyn_c">>, <<"it", "it">>}}

\* a block with the count and for_each meta-arguments
CountExprs ==
  {Lit(v) : v \in {NumberIntVal(0), NumberIntVal(1), NumberIntVal(2), NumberIntVal(-1),
                   NumberHalvesVal(3), NumberHalvesVal(-3),
                   StringVal("2"), StringVal("-1"), StringVal("1.5"), StringVal("x"),
                   BoolVal(TRUE), ListVal(<<>>),
                   NullVal("number"), NullVal("dynamic"),
                   UnknownVal("number"), UnknownVal("string"), DynamicVal,
                   Mark(NumberIntVal(2), "boop"), Mark(NumberIntVal(-1), "boop"),
                   Mark(NullVal("number"), "boop"), Mark(DynamicVal, "boop")}}
    \cup {BadExpr}

MetaForEachExprs ==
  {Lit(v) : v \in {ListVal(Strings(n)) : n \in 0..MaxLen}
                  \cup {MapVal(MapKeys(1), Strings(1)), StringVal("x"),
                        NumberIntVal(1), BoolVal(TRUE),
                        NullVal("dynamic"), NullVal("string"), NullVal("list"),
                        DynamicVal, UnknownVal("string"), UnknownVal("list"),
                        Mark(ListVal(Strings(1)), "boop"), Mark(StringVal("x"), "boop"),
                        Mark(NullVal("dynamic"), "boop"), Mark(NullVal("list"), "boop"),
                        Mark(DynamicVal, "boop")}}
    \cup {BadExpr}

MetaAttrs ==
  {"count" :> cn @@ "for_each" :> fe : cn \in CountExprs, fe \in MetaForEachExprs}
    \cup {"count" :> cn : cn \in CountExprs}
    \cup {"for_each" :> fe : fe \in MetaForEachExprs}
    \cup {NoAttrs}

MetaBodies ==
  {MkBody(NoAttrs, <<LitBlock("resource", <<"x">>,
                              a @@ "name" :> Lit(StringVal("n")), <<>>)>>) :
     a \in MetaAttrs}

\* the source body of TestExpand
TestExpandBody ==
  MkBody(NoAttrs,
    <<LitBlock("a", <<"static0">>, "val" :> Lit(StringVal("static a 0")), <<>>),
      LitBlock("b", <<>>, NoAttrs,
        <<LitBlock("c", <<>>, "val0" :> Lit(StringVal("static c 0")), <<>>),
          DynBlock("c", "for_each" :> Lit(ListVal(<<StringVal("dynamic c 0"),
                                                    StringVal("dynamic c 1")>>))
                          @@ "iterator" :> Var("dyn_c"),
            <<ContentBlock("val0" :> Trav("dyn_c", "value"), <<>>)>>)>>),
      DynBlock("a", "for_each" :> Lit(ListVal(<<StringVal("dynamic a 0"),
                                                StringVal("dynamic a 1"),
                                                StringVal("dynamic a 2")>>))
                      @@ "labels" :> ExprListOf(<<Trav("a", "key")>>),
        <<ContentBlock("val" :> Trav("a", "value"), <<>>)>>),
      DynBlock("b", "for_each" :> Lit(ListVal(<<StringVal("dynamic b 0"),
                                                StringVal("dynamic b 1")>>))
                      @@ "iterator" :> Var("dyn_b"),
        <<ContentBlock(NoAttrs,
            <<LitBlock("c", <<>>, "val0" :> Lit(StringVal("static c 1"))
                                    @@ "val1" :> Trav("dyn_b", "value"), <<>>),
              DynBlock("c", "for_each" :> Lit(ListVal(<<StringVal("dynamic c 2"),
                                                        StringVal("dynamic c 3")>>)),
                <<ContentBlock("val0" :> Trav("c", "value")
                                 @@ "val1" :> Trav("dyn_b", "value"), <<>>)>>)>>)>>),
      DynBlock("b", "for_each" :> Lit(MapVal(<<"foo">>,
                                        <<ListVal(<<StringVal("dynamic c nested 0"),
                                                    StringVal("dynamic c nested 1")>>)>>))
                      @@ "iterator" :> Var("dyn_b"),
        <<ContentBlock(NoAttrs,
            <<DynBlock("c", "for_each" :> Trav("dyn_b", "value"),
                <<ContentBlock("val0" :> Trav("c", "value")
                                 @@ "val1" :> Trav("dyn_b", "key"), <<>>)>>)>>)>>),
      LitBlock("a", <<"static1">>, "val" :> Lit(StringVal("static a 1")), <<>>)>>)

\* the source body of TestExpandMarkedForEach
TestMarkedBody ==
  MkBody(NoAttrs,
    <<DynBlock("b", "for_each" :> Lit(Mark(TupleVal(<<StringVal("hey")>>), "boop"))
                      @@ "iterator" :> Var("dyn_b"),
        <<ContentBlock("val0" :> Lit(StringVal("static c 1"))
                         @@ "val1" :> Trav("dyn_b", "value"), <<>>)>>)>>)

TestBodies == {TestExpandBody, TestMarkedBody}

\* the ambient evaluation contexts: none, and the one of the test of marked
\* for_each values, where the iterator names resolve to unknown
Contexts == {EmptyCtx, "dyn_b" :> DynamicVal @@ "other" :> DynamicVal}

Inputs ==
  {[body |-> b, ctx |-> EmptyCtx] :
     b \in SingleBodies \cup TwoLabelBodies \cup ShapeBodies \cup OrderBodies
           \cup SiblingBodies \cup MetaBodies}
  \cup {[body |-> b, ctx |-> c] : b \in NestedBodies \cup TestBodies, c \in Contexts}

(***************************************************************************)
(* The runner of tflint (runner.go) and its annotations (annotation.go).   *)
(* Go strings that the code takes apart are sequences of characters.       *)
(***************************************************************************)
\* strings.Split(s, sep) for a separator of one character
RECURSIVE SplitFrom(_, _, _, _)
SplitFrom(s, sep, cur, acc) ==
  IF s = <<>> THEN Append(acc, cur)
  ELSE IF Head(s) = sep THEN SplitFrom(Tail(s), sep, <<>>, Append(acc, cur))
  ELSE SplitFrom(Tail(s), sep, Append(cur, Head(s)), acc)
Split(s, sep) == SplitFrom(s, sep, <<>>, <<>>)

\* strings.TrimSpace: s from its first to its last character that is no
\* white space
TrimSpace(s) ==
  LET kept == {i \in 1..Len(s) : s[i] \notin {" ", "\t", "\n", "\r"}}
  IN  IF kept = {} THEN <<>>
      ELSE SubSeq(s, CHOOSE i \in kept : \A j \in kept : i <= j,
                     CHOOSE i \in kept : \A j \in kept : i >= j)

\* slices.Contains
Contains(s, x) == \E i \in 1..Len(s) : s[i] = x

\* hcl.Range, as far as the runner and the annotations read it
Range(filename, line) == [Filename |-> filename, Start |-> [Line |-> line]]

\* the rule names of an annotation: Content split at the commas, each entry
\* trimmed
AnnotationRules(a) ==
  LET rules == Split(a.Content, ",")
  IN  [i \in 1..Len(rules) |-> TrimSpace(rules[i])]

LineAnnotation(content, filename, line) ==
  [kind |-> "line", Content |-> content, Token |-> [Range |-> Range(filename, line)]]
FileAnnotation(content, filename) ==
  [kind |-> "file", Content |-> content, Token |-> [Range |-> Range(filename, 1)]]

\* the line above the issue does not count
LineIsAffectedOnItsLine(a, issue) ==
  IF a.Token.Range.Filename # issue.Range.Filename THEN FALSE
  ELSE IF \/ Contains(AnnotationRules(a), issue.Rule)
          \/ Contains(AnnotationRules(a), <<"a", "l", "l">>)
    THEN a.Token.Range.Start.Line = issue.Range.Start.Line
  ELSE FALSE

\* LineAnnotation.IsAffected
LineIsAffected(a, issue) ==
  IF a.Token.Range.Filename # issue.Range.Filename THEN FALSE
  ELSE IF \/ Contains(AnnotationRules(a), issue.Rule)
          \/ Contains(AnnotationRules(a), <<"a", "l", "l">>)
    THEN \/ a.Token.Range.Start.Line = issue.Range.Start.Line
         \/ a.Token.Range.Start.Line = issue.Range.Start.Line - 1
  ELSE FALSE

\* FileAnnotation.IsAffected
FileIsAffected(a, issue) ==
  IF a.Token.Range.Filename # issue.Range.Filename THEN FALSE
  ELSE \/ Contains(AnnotationRules(a), issue.Rule)
       \/ Contains(AnnotationRules(a), <<"a", "l", "l">>)

\* Annotation.IsAffected, by the type of the annotation
IsAffected(a, issue) ==
  IF a.kind = "line" THEN LineIsAffected(a, issue) ELSE FileIsAffected(a, issue)

\* Issue; Rule is the name of the rule
Issue(rule, message, range, fixable, callers, source) ==
  [Rule |-> rule, Message |-> message, Range |-> range, Fixable |-> fixable,
   Callers |-> callers, Source |-> source]

\* moduleVariable: a variable of a called module, with the variables of the
\* calling module its value refers to
ModuleVariable(root, parents, declRange) ==
  [Root |-> root, Parents |-> parents, DeclRange |-> declRange]

\* moduleVariable.roots: the variables of the root module a variable comes from
RECURSIVE roots(_)
RECURSIVE rootsOfAll(_)
rootsOfAll(ms) ==
  IF ms = <<>> THEN <<>> ELSE roots(Head(ms)) \o rootsOfAll(Tail(ms))
roots(m) == IF m.Root THEN <<m>> ELSE rootsOfAll(m.Parents)

\* moduleVariable.callers: the declarations from the root module down to m
RECURSIVE callers(_)
RECURSIVE callersOfAll(_)
callersOfAll(ms) ==
  IF ms = <<>> THEN <<>> ELSE callers(Head(ms)) \o callersOfAll(Tail(ms))
callers(m) == Append(callersOfAll(m.Parents), m.DeclRange)

\* no expression is being processed
NilExpr == [e |-> "nil", v |-> NilVal, root |-> "", attr |-> "", items |-> <<>>]

\* lang.ReferencesInExpr: the references of an expression, or an error for a
\* traversal that is no reference of the language (a bare name)
RECURSIVE ReferencesInExpr(_)
ReferencesInExpr(expr) ==
  CASE expr.e = "nil" -> [refs |-> {}, err |-> FALSE]
    [] expr.e = "lit" -> [refs |-> {}, err |-> FALSE]
    [] expr.e = "trav" ->
         IF expr.attr = "" THEN [refs |-> {}, err |-> TRUE]
         ELSE [refs |-> {[subject |-> expr.root, name |-> expr.attr]}, err |-> FALSE]
    [] expr.e = "list" ->
         [refs |-> UNION {ReferencesInExpr(expr.items[i]).refs : i \in 1..Len(expr.items)},
          err |-> \E i \in 1..Len(expr.items) : ReferencesInExpr(expr.items[i]).err]
    [] OTHER -> [refs |-> {}, err |-> TRUE]

\* listVarRefs: the names of the input variables an expression refers to; a
\* Go map, so a set with no order
listVarRefs(expr) ==
  LET r == ReferencesInExpr(expr)
  IN  IF r.err THEN {}
      ELSE {ref.name : ref \in {x \in r.refs : x.subject = "var"}}

\* the orders in which a range over a Go map can visit the keys S
Orders(S) ==
  {s \in [1..Cardinality(S) -> S] : \A i, j \in 1..Cardinality(S) : i # j => s[i] # s[j]}

\* Runner.listModuleVars, the references visited in the given order
RECURSIVE listModuleVars(_, _)
listModuleVars(modVars, order) ==
  IF order = <<>> THEN <<>>
  ELSE (IF Head(order) \in DOMAIN modVars THEN roots(modVars[Head(order)]) ELSE <<>>)
         \o listModuleVars(modVars, Tail(order))

\* filepath.Clean on the paths of the model
Clean(path) ==
  CASE path = "./main.tf" -> "main.tf"
    [] path = "module/../main.tf" -> "main.tf"
    [] OTHER -> path

\* a Go map with no entries
EmptyMap == [x \in {} |-> <<>>]

\* maps.Copy(dst, src)
MapsCopy(dst, src) ==
  [k \in DOMAIN dst \cup DOMAIN src |-> IF k \in DOMAIN src THEN src[k] ELSE dst[k]]

\* Runner.LookupChanges
LookupChanges(recorded, files) ==
  IF files = {} THEN recorded
  ELSE [p \in {q \in DOMAIN recorded : \E f \in files : Clean(f) = Clean(q)} |->
          recorded[p]]

\* Runner.Sources()[filename]: nil for a file the module does not have
SourceOf(sources, filename) ==
  IF filename \in DOMAIN sources THEN sources[filename] ELSE ""

\* an annotation registered for the file of the issue affects it
Ignored(annotations, issue) ==
  /\ issue.Range.Filename \in DOMAIN annotations
  /\ \E i \in 1..Len(annotations[issue.Range.Filename]) :
       IsAffected(annotations[issue.Range.Filename][i], issue)

\* the issue is accumulated although an annotation affects it
emitIssueKeepsIgnored(annotations, issues, issue) ==
  [Issues |-> Append(issues, issue), applied |-> ~Ignored(annotations, issue)]

\* Runner.emitIssue
emitIssue(annotations, issues, issue) ==
  IF Ignored(annotations, issue) THEN [Issues |-> issues, applied |-> FALSE]
  ELSE [Issues |-> Append(issues, issue), applied |-> TRUE]

\* the issue EmitIssue builds for a variable of the root module; call holds
\* the arguments of EmitIssue
ModVarIssue(modVar, call, sources) ==
  Issue(call.rule, call.message, modVar.DeclRange, FALSE,
        Append(callers(modVar), call.location),
        SourceOf(sources, modVar.DeclRange.Filename))

\* the loop ends at the first issue that is ignored
RECURSIVE emitForModVarsUntilIgnored(_, _, _, _, _, _)
emitForModVarsUntilIgnored(annotations, issues, modVars, call, sources, acc) ==
  IF modVars = <<>> THEN [Issues |-> issues, applied |-> acc.applied, emitted |-> acc.emitted]
  ELSE
    LET issue == ModVarIssue(Head(modVars), call, sources)
        r == emitIssue(annotations, issues, issue)
    IN  IF ~r.applied
          THEN [Issues |-> issues, applied |-> FALSE, emitted |-> Append(acc.emitted, issue)]
        ELSE emitForModVarsUntilIgnored(annotations, r.Issues, Tail(modVars), call, sources,
               [applied |-> acc.applied, emitted |-> Append(acc.emitted, issue)])

\* EmitIssue in a called module, lines 239-254: the loop over the variables of
\* the root module; acc holds allApplied and the issues built so far
RECURSIVE emitForModVars(_, _, _, _, _, _)
emitForModVars(annotations, issues, modVars, call, sources, acc) ==
  IF modVars = <<>> THEN [Issues |-> issues, applied |-> acc.applied, emitted |-> acc.emitted]
  ELSE
    LET issue == ModVarIssue(Head(modVars), call, sources)
        r == emitIssue(annotations, issues, issue)
    IN  emitForModVars(annotations, r.Issues, Tail(modVars), call, sources,
          [applied |-> acc.applied /\ r.applied, emitted |-> Append(acc.emitted, issue)])

(***************************************************************************)
(* The making of the annotations of a file (annotation.go, lines 23-125).  *)
(* The bytes of a comment are a sequence of pieces: the words              *)
(* tflint-ignore and -file are one piece each, every other character is a  *)
(* piece of its own.  A file is what the lexer and the JSON decoder make   *)
(* of its bytes: tokens with their start, the diagnostics of the lexer,    *)
(* and the value of the root property "//".                                *)
(***************************************************************************)
\* tflint-ignore: ([^\n*/#]+)
lineAnnotationPattern ==
  [prefix |-> <<"tflint-ignore", ":", " ">>, excluded |-> {"\n", "*", "/", "#"}]

\* tflint-ignore-file: ([^\n*/#]+)
fileAnnotationPattern ==
  [prefix |-> <<"tflint-ignore", "-file", ":", " ">>, excluded |-> {"\n", "*", "/", "#"}]

\* Regexp.FindStringSubmatchIndex for the two patterns: the leftmost place
\* where the prefix is followed by a character of the group, the group as
\* long as it can be; start and end of the match and of the group, counted
\* from 0, the end exclusive; empty without a match
FindStringSubmatchIndex(pattern, s) ==
  LET n == Len(pattern.prefix)
      starts == {i \in 1..Len(s) :
                   /\ i + n <= Len(s)
                   /\ SubSeq(s, i, i + n - 1) = pattern.prefix
                   /\ s[i + n] \notin pattern.excluded}
  IN  IF starts = {} THEN <<>>
      ELSE
        LET i == CHOOSE k \in starts : \A j \in starts : k <= j
            e == CHOOSE k \in (i + n)..Len(s) :
                   /\ \A j \in (i + n)..k : s[j] \notin pattern.excluded
                   /\ (k = Len(s) \/ s[k + 1] \in pattern.excluded)
        IN  <<i - 1, e, i + n - 1, e>>

\* hclAnnotations
hclAnnotations(path, f) ==
  LET tokens == [i \in 1..Len(f.tokens) |->
                   [Type |-> f.tokens[i].Type, Bytes |-> f.tokens[i].Bytes,
                    Range |-> [Filename |-> path, Start |-> f.tokens[i].Start]]]
      FindStringSubmatch(pattern, s) ==
        LET m == FindStringSubmatchIndex(pattern, s)
        IN  IF m = <<>> THEN <<>>
            ELSE <<SubSeq(s, m[1] + 1, m[2]), SubSeq(s, m[3] + 1, m[4])>>
      RECURSIVE loop(_, _, _)
      loop(rest, ret, diags) ==
        IF rest = <<>> THEN [ret |-> ret, diags |-> diags]
        ELSE
          LET token == Head(rest)
              lineMatch == FindStringSubmatch(lineAnnotationPattern, token.Bytes)
              fileMatch == FindStringSubmatch(fileAnnotationPattern, token.Bytes)
          IN  IF token.Type # "TokenComment" THEN loop(Tail(rest), ret, diags)
              ELSE IF Len(lineMatch) = 2
                THEN loop(Tail(rest),
                          Append(ret, [kind |-> "line", Content |-> TrimSpace(lineMatch[2]),
                                       Token |-> token]),
                          diags)
              ELSE IF Len(fileMatch) = 2
                THEN IF token.Range.Start.Line # 1 \/ token.Range.Start.Column # 1
                       THEN loop(Tail(rest), ret,
                                 Append(diags,
                                   DiagAt("tflint-ignore-file annotation must be written at the top of file",
                                          <<"tflint-ignore-file annotation is written at line ",
                                            token.Range.Start.Line, ", column ",
                                            token.Range.Start.Column>>,
                                          <<token.Range>>)))
                     ELSE loop(Tail(rest),
                               Append(ret, [kind |-> "file", Content |-> TrimSpace(fileMatch[2]),
                                            Token |-> token]),
                               diags)
              ELSE loop(Tail(rest), ret, diags)
  IN  IF HasErrors(f.lexDiags) THEN [ret |-> <<>>, diags |-> f.lexDiags]
      ELSE loop(tokens, <<>>, f.lexDiags)

\* jsonAnnotations
jsonAnnotations(path, f) ==
  IF f.jsonErr THEN [ret |-> <<>>, diags |-> <<>>]
  ELSE
    LET matchIndexes == FindStringSubmatchIndex(fileAnnotationPattern, f.Comment)
        range == [Filename |-> path, Start |-> [Line |-> 0, Column |-> 0]]
    IN  IF Len(matchIndexes) # 4 THEN [ret |-> <<>>, diags |-> <<>>]
        ELSE IF matchIndexes[1] # 0
          THEN [ret |-> <<>>,
                diags |-> <<DiagAt("tflint-ignore-file annotation must appear at the beginning of the JSON comment property value",
                                   <<"tflint-ignore-file annotation is written at index ",
                                     matchIndexes[1], " of the comment property value">>,
                                   <<range>>)>>]
        ELSE [ret |-> <<[kind |-> "file",
                         Content |-> TrimSpace(SubSeq(f.Comment, matchIndexes[3] + 1,
                                                      matchIndexes[4])),
                         Token |-> [Range |-> range]]>>,
              diags |-> <<>>]

(***************************************************************************)
(* The runners of the model: the runner of the root module and runners of  *)
(* called modules, whose variables come from the root module directly,     *)
(* through the variables of a module in between, or not at all.            *)
(***************************************************************************)
Runners ==
  LET r1 == <<"r", "1">>
      r1r2 == <<"r", "1", ",", " ", "r", "2">>
      all == <<"a", "l", "l">>
      annotations ==
        {EmptyMap,
         "main.tf" :> <<LineAnnotation(r1, "main.tf", 2)>>,
         "main.tf" :> <<LineAnnotation(r1r2, "main.tf", 3)>>
           @@ "other.tf" :> <<FileAnnotation(all, "other.tf")>>}
      rootA == ModuleVariable(TRUE, <<>>, Range("main.tf", 2))
      rootB == ModuleVariable(TRUE, <<>>, Range("main.tf", 4))
      rootC == ModuleVariable(TRUE, <<>>, Range("other.tf", 3))
      modVars ==
        {"a" :> rootA @@ "b" :> rootB,
         "a" :> ModuleVariable(FALSE, <<rootB, rootA>>, Range("child.tf", 2))
           @@ "b" :> ModuleVariable(FALSE, <<>>, Range("child.tf", 3)),
         "a" :> ModuleVariable(FALSE,
                  <<ModuleVariable(FALSE, <<rootA>>, Range("child.tf", 2)),
                    ModuleVariable(FALSE, <<rootA>>, Range("child.tf", 3))>>,
                  Range("grandchild.tf", 2))
           @@ "b" :> rootC}
      sources == "main.tf" :> "main" @@ "other.tf" :> "other"
  IN  {[IsRoot |-> TRUE, annotations |-> a, modVars |-> EmptyMap, Sources |-> sources] :
         a \in annotations}
      \cup
      {[IsRoot |-> FALSE, annotations |-> a, modVars |-> m, Sources |-> sources] :
         a \in annotations, m \in modVars}

\* the expressions a rule processes
RunnerExprs ==
  {Trav("var", "a"), Trav("var", "b"), Trav("var", "c"), Trav("local", "a"), Var("a"),
   ExprListOf(<<Trav("var", "a"), Trav("var", "b")>>)}

\* the changes a rule applies
ChangeSets ==
  {EmptyMap, "main.tf" :> "a", "main.tf" :> "b", "./main.tf" :> "a",
   "main.tf" :> "b" @@ "other.tf" :> "b"}

\* no operation of the runner has been called yet
NoCall ==
  [op |-> "", ret |-> FALSE, rule |-> <<>>, location |-> Range("", 0), fixable |-> FALSE,
   modVars |-> <<>>, built |-> 0, prevIssues |-> <<>>, given |-> EmptyMap,
   failed |-> FALSE, prevChanges |-> EmptyMap]

\* lines 41-75, the runner r after NewRunner: no issue, no change, no
\* expression in process
NewRunner(r) ==
  /\ runner = r
  /\ Issues = <<>>
  /\ changes = EmptyMap
  /\ currentExpr = NilExpr
  /\ emitted = <<>>
  /\ calls = 0
  /\ last = NoCall


(***************************************************************************)
(* The state: the source body and the ambient context, and the result of   *)
(* the last operation applied to them.                                     *)
(***************************************************************************)
NoDyn == [idx |-> 0, res |-> [spec |-> <<>>, diags |-> <<>>]]
NoNb == [k |-> 0, iteration |-> NilIteration, res |-> [block |-> <<>>, diags |-> <<>>]]
NoOut == [type |-> "", partial |-> FALSE, blocks |-> <<>>, diags |-> <<>>]
NoMeta == [idx |-> 0,
           res |-> [spec |-> ZeroMetaArgSpec, diags |-> <<>>, evaluated |-> <<>>]]

Init ==
  /\ \E in \in Inputs : body = in.body /\ ctx = in.ctx
  /\ dyn = NoDyn
  /\ nb = NoNb
  /\ out = NoOut
  /\ parent = <<>>
  /\ meta = NoMeta
  /\ NewRunner([IsRoot |-> TRUE, annotations |-> EmptyMap, modVars |-> EmptyMap,
                Sources |-> EmptyMap])
  /\ file = [path |-> <<>>, tokens |-> <<>>, lexDiags |-> <<>>, jsonErr |-> FALSE,
             Comment |-> <<>>]
  /\ ants = [done |-> FALSE, ret |-> <<>>, diags |-> <<>>]
  /\ affected = [done |-> FALSE, annotation |-> <<>>, issue |-> <<>>, result |-> FALSE]

\* nothing has been applied to the body yet
Fresh == dyn = NoDyn /\ nb = NoNb /\ out = NoOut /\ meta = NoMeta

\* decodeDynamicSpec on a dynamic block of the body
DecodeDynamic(i) ==
  /\ Fresh
  /\ body.blocks[i].Type = "dynamic"
  /\ dyn' = [idx |-> i,
             res |-> decodeDynamicSpec(SchemaOf(body.blocks[i].Labels[1]),
                                       body.blocks[i], ctx)]
  /\ nb' = NoNb /\ out' = NoOut /\ parent' = <<>> /\ meta' = NoMeta
  /\ UNCHANGED <<body, ctx>>
  /\ UNCHANGED <<rvars, file, ants, affected>>

\* newBlock on the decoded directive, for one of its iterations
NewBlock(k) ==
  /\ nb = NoNb
  /\ dyn.res.spec # <<>>
  /\ ~HasErrors(dyn.res.diags)
  /\ k \in 1..Len(Iterations(Expand(body), dyn.res.spec[1]))
  /\ LET i == Iterations(Expand(body), dyn.res.spec[1])[k]
     IN  nb' = [k |-> k, iteration |-> i, res |-> newBlock(dyn.res.spec[1], i, ctx)]
  /\ out' = NoOut /\ parent' = <<>> /\ meta' = NoMeta
  /\ UNCHANGED <<body, ctx, dyn>>
  /\ UNCHANGED <<rvars, file, ants, affected>>

\* Content or PartialContent of the expanded body, for one block type
ExpandContent(type, partial) ==
  /\ Fresh
  /\ LET r == Content(Expand(body), SchemaOf(type), ctx, partial)
     IN  out' = [type |-> type, partial |-> partial,
                 blocks |-> r.blocks, diags |-> r.diags]
  /\ parent' = <<>>
  /\ dyn' = NoDyn /\ nb' = NoNb /\ meta' = NoMeta
  /\ UNCHANGED <<body, ctx>>
  /\ UNCHANGED <<rvars, file, ants, affected>>

\* Content or PartialContent of the body of an expanded block
Descend(j, type) ==
  /\ j \in 1..Len(out.blocks)
  /\ out.blocks[j].Body.blocks # <<>>
  /\ LET r == Content(expandChild(out.blocks[j]), SchemaOf(type), ctx, out.partial)
     IN  out' = [type |-> type, partial |-> out.partial,
                 blocks |-> r.blocks, diags |-> r.diags]
  /\ parent' = <<out.blocks[j]>>
  /\ dyn' = NoDyn /\ nb' = NoNb /\ meta' = NoMeta
  /\ UNCHANGED <<body, ctx>>
  /\ UNCHANGED <<rvars, file, ants, affected>>

\* decodeMetaArgSpec on a literal block of the body
DecodeMetaArg(i) ==
  /\ Fresh
  /\ body.blocks[i].Type # "dynamic"
  /\ meta' = [idx |-> i, res |-> decodeMetaArgSpec(body.blocks[i], ctx)]
  /\ dyn' = NoDyn /\ nb' = NoNb /\ out' = NoOut /\ parent' = <<>>
  /\ UNCHANGED <<body, ctx>>
  /\ UNCHANGED <<rvars, file, ants, affected>>

Next ==
  \/ \E i \in 1..Len(body.blocks) : DecodeDynamic(i)
  \/ \E k \in 1..(MaxLen + 1) : NewBlock(k)
  \/ \E type \in Types, partial \in BOOLEAN : ExpandContent(type, partial)
  \/ \E j \in 1..Len(out.blocks), type \in Types : Descend(j, type)
  \/ \E i \in 1..Len(body.blocks) : DecodeMetaArg(i)

Spec == Init /\ [][Next]_vars

\* the expectations of TestExpand and TestExpandMarkedForEach
TestPartialDecodeA ==
  body = TestExpandBody /\ out.type = "a" /\ out.partial /\ parent = <<>> =>
    /\ out.diags = <<>>
    /\ [k \in 1..Len(out.blocks) |->
          <<out.blocks[k].Labels[1], DecodeAttr(out.blocks[k], "val", ctx).val>>]
       = << <<"static0", StringVal("static a 0")>>,
            <<"0", StringVal("dynamic a 0")>>,
            <<"1", StringVal("dynamic a 1")>>,
            <<"2", StringVal("dynamic a 2")>>,
            <<"static1", StringVal("static a 1")>> >>

TestDecodeC ==
  body = TestExpandBody /\ out.type = "c" /\ parent # <<>> /\ ctx = EmptyCtx =>
    /\ out.diags = <<>>
    /\ [k \in 1..Len(out.blocks) |->
          <<DecodeAttr(out.blocks[k], "val0", ctx).val,
            DecodeAttr(out.blocks[k], "val1", ctx).val>>]
       \in { << <<StringVal("static c 0"), NullVal("string")>>,
                <<StringVal("dynamic c 0"), NullVal("string")>>,
                <<StringVal("dynamic c 1"), NullVal("string")>> >>,
             << <<StringVal("static c 1"), StringVal("dynamic b 0")>>,
                <<StringVal("dynamic c 2"), StringVal("dynamic b 0")>>,
                <<StringVal("dynamic c 3"), StringVal("dynamic b 0")>> >>,
             << <<StringVal("static c 1"), StringVal("dynamic b 1")>>,
                <<StringVal("dynamic c 2"), StringVal("dynamic b 1")>>,
                <<StringVal("dynamic c 3"), StringVal("dynamic b 1")>> >>,
             << <<StringVal("dynamic c nested 0"), StringVal("foo")>>,
                <<StringVal("dynamic c nested 1"), StringVal("foo")>> >> }

TestMarkedDecode ==
  body = TestMarkedBody /\ out.type = "b" /\ parent = <<>>
    /\ ctx # EmptyCtx =>
    /\ ~HasErrors(out.diags)
    /\ [k \in 1..Len(out.blocks) |->
          ContentValue(out.blocks[k], <<"val0", "val1">>, ctx)]
       = <<Mark(ObjectVal(<<"val0", "val1">>,
                          <<StringVal("static c 1"), UnknownVal("string")>>), "boop")>>


(***************************************************************************)
(* The runner as a state machine: EmitIssue, WithExpressionContext (its    *)
(* two ends), ApplyChanges and ClearChanges on one runner.                 *)
(***************************************************************************)
\* bound on the number of calls on the runner
MaxCalls == 3

RunnerInit ==
  /\ \E r \in Runners : NewRunner(r)
  /\ body = TestExpandBody /\ ctx = EmptyCtx
  /\ dyn = NoDyn /\ nb = NoNb /\ out = NoOut /\ parent = <<>> /\ meta = NoMeta
  /\ file = [path |-> <<>>, tokens |-> <<>>, lexDiags |-> <<>>, jsonErr |-> FALSE,
             Comment |-> <<>>]
  /\ ants = [done |-> FALSE, ret |-> <<>>, diags |-> <<>>]
  /\ affected = [done |-> FALSE, annotation |-> <<>>, issue |-> <<>>, result |-> FALSE]

\* lines 226-256
EmitIssue(rule, message, location, fixable) ==
  /\ calls < MaxCalls
  /\ LET call == [rule |-> rule, message |-> message, location |-> location]
     IN
     IF runner.IsRoot
       THEN
         LET issue == Issue(rule, message, location, fixable, <<>>,
                            SourceOf(runner.Sources, location.Filename))
             r == emitIssue(runner.annotations, Issues, issue)
         IN  /\ Issues' = r.Issues
             /\ emitted' = Append(emitted, issue)
             /\ last' = [NoCall EXCEPT !.op = "EmitIssue", !.ret = r.applied,
                           !.rule = rule, !.location = location, !.fixable = fixable,
                           !.built = 1, !.prevIssues = Issues]
       ELSE
         \E order \in Orders(listVarRefs(currentExpr)) :
           LET modVars == listModuleVars(runner.modVars, order)
               r == emitForModVars(runner.annotations, Issues, modVars, call,
                                   runner.Sources,
                                   [applied |-> Len(modVars) > 0, emitted |-> <<>>])
           IN  /\ Issues' = r.Issues
               /\ emitted' = emitted \o r.emitted
               /\ last' = [NoCall EXCEPT !.op = "EmitIssue", !.ret = r.applied,
                             !.rule = rule, !.location = location, !.fixable = fixable,
                             !.modVars = modVars, !.built = Len(r.emitted),
                             !.prevIssues = Issues]
  /\ calls' = calls + 1
  /\ UNCHANGED <<runner, changes, currentExpr>>
  /\ UNCHANGED <<evars, file, ants, affected>>

\* lines 259-261: WithExpressionContext sets the expression and calls proc
WithExpressionContextBegin(expr) ==
  /\ calls < MaxCalls
  /\ currentExpr = NilExpr
  /\ currentExpr' = expr
  /\ last' = [NoCall EXCEPT !.op = "WithExpressionContext"]
  /\ calls' = calls + 1
  /\ UNCHANGED <<runner, Issues, changes, emitted>>
  /\ UNCHANGED <<evars, file, ants, affected>>

\* lines 262-263: proc has returned
WithExpressionContextEnd ==
  /\ currentExpr # NilExpr
  /\ currentExpr' = NilExpr
  /\ last' = [NoCall EXCEPT !.op = "WithExpressionContext"]
  /\ UNCHANGED <<runner, Issues, changes, emitted, calls>>
  /\ UNCHANGED <<evars, file, ants, affected>>

\* the changes recorded although the module could not be rebuilt
ApplyChangesResultAlways(recorded, given, failed) ==
  IF DOMAIN given = {} THEN recorded ELSE MapsCopy(recorded, given)

\* lines 276-288: the changes recorded after ApplyChanges; failed tells
\* whether Module.Rebuild reported an error
ApplyChangesResult(recorded, given, failed) ==
  IF DOMAIN given = {} THEN recorded
  ELSE IF failed THEN recorded
  ELSE MapsCopy(recorded, given)

ApplyChanges(given, failed) ==
  /\ calls < MaxCalls
  /\ changes' = ApplyChangesResult(changes, given, failed)
  /\ last' = [NoCall EXCEPT !.op = "ApplyChanges",
                !.ret = (DOMAIN given = {} \/ ~failed),
                !.given = given, !.failed = failed, !.prevChanges = changes]
  /\ calls' = calls + 1
  /\ UNCHANGED <<runner, Issues, currentExpr, emitted>>
  /\ UNCHANGED <<evars, file, ants, affected>>

\* lines 291-293
ClearChanges ==
  /\ calls < MaxCalls
  /\ changes' = EmptyMap
  /\ last' = [NoCall EXCEPT !.op = "ClearChanges", !.prevChanges = changes]
  /\ calls' = calls + 1
  /\ UNCHANGED <<runner, Issues, currentExpr, emitted>>
  /\ UNCHANGED <<evars, file, ants, affected>>

RunnerNext ==
  \/ \E rule \in {<<"r", "1">>, <<"r", "2">>}, fixable \in BOOLEAN,
          location \in {Range("main.tf", 2), Range("main.tf", 4), Range("other.tf", 3)} :
       EmitIssue(rule, "message", location, fixable)
  \/ \E expr \in RunnerExprs : WithExpressionContextBegin(expr)
  \/ WithExpressionContextEnd
  \/ \E given \in ChangeSets, failed \in BOOLEAN : ApplyChanges(given, failed)
  \/ ClearChanges

RunnerSpec == RunnerInit /\ [][RunnerNext]_vars

(***************************************************************************)
(* The annotations as a state machine: NewAnnotations on one file, then    *)
(* IsAffected of its annotations on issues.                                *)
(***************************************************************************)
\* most tokens of a file
MaxTokens == 2

\* the last line an issue starts on
MaxLine == MaxTokens + 2

\* The files: files in the native syntax with comments of every kind, the
\* first token starting at the top of the file, after something else on the
\* first line, or on the second line, every later token on a line of its
\* own; a file the lexer rejects; JSON files with a comment property.
AnnotationInit ==
  /\ LET comment(bytes) == [Type |-> "TokenComment", Bytes |-> bytes]
         ignore == <<"tflint-ignore", ":", " ">>
         ignoreFile == <<"tflint-ignore", "-file", ":", " ">>
         kinds ==
           {comment(<<"#", " ">> \o ignore \o <<"r", "1", "\n">>),
            comment(<<"#", " ">> \o ignore \o <<"r", "1", ",", " ", "r", "2", "\n">>),
            comment(<<"/", "/", " ">> \o ignore \o <<"a", "l", "l", "\n">>),
            comment(<<"#", " ">> \o ignoreFile \o <<"r", "1", "\n">>),
            comment(<<"/", "*", " ">> \o ignoreFile \o <<"a", "l", "l", " ", "*", "/">>),
            comment(<<"#", " ">> \o ignoreFile \o <<"r", "1", " ">> \o ignore
                      \o <<"r", "2", "\n">>),
            comment(<<"#", " ", "r", "1", "\n">>),
            [Type |-> "TokenQuotedLit", Bytes |-> ignore \o <<"r", "1">>]}
         starts == {[Line |-> 1, Column |-> 1], [Line |-> 1, Column |-> 3],
                    [Line |-> 2, Column |-> 1]}
         layout(ks, start) ==
           [i \in 1..Len(ks) |->
              [Type |-> ks[i].Type, Bytes |-> ks[i].Bytes,
               Start |-> IF i = 1 THEN start
                         ELSE [Line |-> start.Line + i - 1, Column |-> 1]]]
         hclFile(tokens, lexDiags) ==
           [path |-> <<"main.tf">>, tokens |-> tokens, lexDiags |-> lexDiags,
            jsonErr |-> FALSE, Comment |-> <<>>]
         jsonFile(jsonErr, value) ==
           [path |-> <<"main.tf", ".json">>, tokens |-> <<>>, lexDiags |-> <<>>,
            jsonErr |-> jsonErr, Comment |-> value]
         files ==
           {hclFile(layout(ks, start), <<>>) :
              ks \in UNION {[1..n -> kinds] : n \in 0..MaxTokens}, start \in starts}
           \cup {hclFile(layout(<<k>>, [Line |-> 1, Column |-> 1]),
                         <<Diag("Invalid character",
                                "This character is not used within the language.")>>) :
                   k \in kinds}
           \cup {jsonFile(FALSE, value) :
                   value \in {<<>>,
                              ignoreFile \o <<"r", "1">>,
                              ignoreFile \o <<"a", "l", "l", ",", "r", "1">>,
                              <<"x", " ">> \o ignoreFile \o <<"r", "1">>,
                              ignore \o <<"r", "1">>}}
           \cup {jsonFile(TRUE, <<>>)}
     IN  file \in files
  /\ ants = [done |-> FALSE, ret |-> <<>>, diags |-> <<>>]
  /\ affected = [done |-> FALSE, annotation |-> <<>>, issue |-> <<>>, result |-> FALSE]
  /\ NewRunner([IsRoot |-> TRUE, annotations |-> EmptyMap, modVars |-> EmptyMap,
                Sources |-> EmptyMap])
  /\ body = TestExpandBody /\ ctx = EmptyCtx
  /\ dyn = NoDyn /\ nb = NoNb /\ out = NoOut /\ parent = <<>> /\ meta = NoMeta

\* lines 24-31
NewAnnotations ==
  /\ ~ants.done
  /\ LET r == IF Len(file.path) > 0 /\ file.path[Len(file.path)] = ".json"
                THEN jsonAnnotations(file.path, file)
              ELSE hclAnnotations(file.path, file)
     IN  ants' = [done |-> TRUE, ret |-> r.ret, diags |-> r.diags]
  /\ UNCHANGED <<file, affected>>
  /\ UNCHANGED <<evars, rvars>>

\* Annotation.IsAffected of the i-th annotation of the file on an issue; one
\* call is followed, calls do not change the annotations
AnnotationIsAffected(i, issue) ==
  /\ ants.done
  /\ ~affected.done
  /\ i \in 1..Len(ants.ret)
  /\ affected' = [done |-> TRUE, annotation |-> ants.ret[i], issue |-> issue,
                  result |-> IsAffected(ants.ret[i], issue)]
  /\ UNCHANGED <<file, ants>>
  /\ UNCHANGED <<evars, rvars>>

AnnotationNext ==
  \/ NewAnnotations
  \/ \E i \in 1..MaxTokens, rule \in {<<"r", "1">>, <<"r", "2">>, <<"r", "3">>},
          filename \in {<<"main.tf">>, <<"main.tf", ".json">>, <<"other.tf">>},
          line \in 1..MaxLine :
       AnnotationIsAffected(i, Issue(rule, "message", Range(filename, line), FALSE,
                                     <<>>, ""))

AnnotationSpec == AnnotationInit /\ [][AnnotationNext]_vars

(***************************************************************************)
(* What the properties below speak of.                                     *)
(***************************************************************************)
\* Content or PartialContent was taken of the body itself
RootContent == out.type # "" /\ parent = <<>>

\* the dynamic blocks of a body that generate blocks of a type
DirectivesOf(src, type) ==
  {d \in 1..Len(src.blocks) :
     src.blocks[d].Type = "dynamic" /\ src.blocks[d].Labels[1] = type}

\* the blocks of out that the directive at position d generated
GeneratedAt(d) == SelectSeq(out.blocks, LAMBDA x : x.synthetic /\ x.DefRange = d)

\* the dynamic block r has the shape of a directive for blocks of the schema
ShapeOk(r, blockS) ==
  /\ ~HasErrors(DynamicSchemaDiags(blockS, r))
  /\ DynamicIterator(blockS, r.Body.attrs).diags = <<>>
  /\ DynamicLabels(blockS, r.Body.attrs).diags = <<>>
  /\ DynamicContentDiags(r.Body.blocks) = <<>>

\* the directive at position d of the body has the shape of a directive
\* for blocks of type out.type, and its for_each evaluates
WellFormedAt(d) ==
  /\ ShapeOk(body.blocks[d], SchemaOf(out.type))
  /\ ~Value(body.blocks[d].Body.attrs["for_each"], ctx).err

ForEachAt(d) == Value(body.blocks[d].Body.attrs["for_each"], ctx).val

\* the key of element k of a list or a map
KeyOf(v, k) == IF v.ty = "map" THEN StringVal(v.ks[k]) ELSE NumberIntVal(k - 1)

\* the values of the labels of the directive at position d when its iterator
\* stands for the given key and value
LabelValuesAt(d, key, value) ==
  LET a == body.blocks[d].Body.attrs
      name == DynamicIterator(SchemaOf(out.type), a).name
      c == (name :> IterObject(key, value)) @@ ctx
      ls == IF "labels" \in DOMAIN a THEN a["labels"].items ELSE <<>>
  IN  [n \in 1..Len(ls) |-> Value(ls[n], c)]

\* a value newBlock makes a label of
UsableLabel(v) ==
  /\ ~v.err
  /\ v.val.k = "known"
  /\ v.val.marks = {}
  /\ v.val.ty \in {"string", "number", "bool"}

\* the for_each of the directive at d is a known list or map
KnownCollectionAt(d) ==
  /\ WellFormedAt(d)
  /\ ForEachAt(d).k = "known"
  /\ ForEachAt(d).ty \in {"list", "map"}

\* the directive at d generated one block for each element of v, the k-th
\* with the key and the value of element k in its iterator
OneBlockPerElement(d, v) ==
  /\ Len(GeneratedAt(d)) = Len(v.es)
  /\ \A k \in 1..Len(v.es) :
       /\ GeneratedAt(d)[k].Type = out.type
       /\ GeneratedAt(d)[k].iteration.Key = KeyOf(v, k)
       /\ GeneratedAt(d)[k].iteration.Value = v.es[k]

(***************************************************************************)
(* C1, as stated: a directive whose for_each is a known list or map of N   *)
(* elements and whose labels all evaluate to known values generates        *)
(* exactly N blocks, the i-th with the key and the value of element i.     *)
(***************************************************************************)
C1_AsStated ==
  RootContent =>
    \A d \in DirectivesOf(body, out.type) :
      (/\ KnownCollectionAt(d)
       /\ \A k \in 1..Len(ForEachAt(d).es) :
            LET ls == LabelValuesAt(d, KeyOf(ForEachAt(d), k), ForEachAt(d).es[k])
            IN  \A n \in 1..Len(ls) : ~ls[n].err /\ ls[n].val.k = "known")
      => OneBlockPerElement(d, ForEachAt(d))

(***************************************************************************)
(* C1: a well-formed directive whose for_each is a known, unmarked list or *)
(* map of N elements and whose labels all evaluate, for every element, to  *)
(* known, non-null, unmarked values that convert to string generates       *)
(* exactly N blocks of the target type, the i-th with iterator key the     *)
(* zero-based index i or the map key, and iterator value the element.      *)
(***************************************************************************)
C1_Cardinality ==
  RootContent =>
    \A d \in DirectivesOf(body, out.type) :
      (/\ KnownCollectionAt(d)
       /\ ~IsMarked(ForEachAt(d))
       /\ \A k \in 1..Len(ForEachAt(d).es) :
            LET ls == LabelValuesAt(d, KeyOf(ForEachAt(d), k), ForEachAt(d).es[k])
            IN  \A n \in 1..Len(ls) : UsableLabel(ls[n]))
      => OneBlockPerElement(d, ForEachAt(d))

\* a map of MaxLen keys generated MaxLen labelled blocks
C1_Witness ==
  /\ RootContent
  /\ \E d \in DirectivesOf(body, out.type) :
       /\ KnownCollectionAt(d)
       /\ ForEachAt(d).ty = "map"
       /\ Len(ForEachAt(d).es) = MaxLen
       /\ Len(GeneratedAt(d)) = MaxLen
       /\ GeneratedAt(d)[MaxLen].Labels = <<"k" \o ToString(MaxLen)>>
       /\ GeneratedAt(d)[MaxLen].iteration.Value = StringVal("e" \o ToString(MaxLen - 1))

\* the body the last Content was taken of, and the context its directives
\* are decoded in
Src == IF parent = <<>> THEN body ELSE parent[1].Body
SrcCtx == IF parent = <<>> THEN ctx ELSE EvalContext(parent[1].iteration, ctx)

\* the position of a key among the elements of a collection
ElementIndex(v, key) ==
  CHOOSE k \in 1..Len(v.es) : Elements(v)[k].key = key

(***************************************************************************)
(* C2: the expanded blocks of type T keep the order of the source: every   *)
(* literal T block of the source is there, each block stands where its     *)
(* literal block or its directive stands in the source (so the blocks of   *)
(* one directive are together, at the directive's position), and the       *)
(* blocks of one directive are in the iteration order of its collection.   *)
(***************************************************************************)
C2_OrderStability ==
  out.type # "" =>
    /\ \A j \in 1..Len(out.blocks) :
         IF out.blocks[j].synthetic
           THEN out.blocks[j].DefRange \in DirectivesOf(Src, out.type)
           ELSE /\ out.blocks[j].DefRange \in 1..Len(Src.blocks)
                /\ Src.blocks[out.blocks[j].DefRange].Type = out.type
                /\ Src.blocks[out.blocks[j].DefRange].Labels = out.blocks[j].Labels
                /\ Src.blocks[out.blocks[j].DefRange].Body = out.blocks[j].Body
    /\ \A d \in 1..Len(Src.blocks) :
         Src.blocks[d].Type = out.type =>
           \E j \in 1..Len(out.blocks) :
             ~out.blocks[j].synthetic /\ out.blocks[j].DefRange = d
    /\ \A j, j2 \in 1..Len(out.blocks) :
         j < j2 =>
           /\ out.blocks[j].DefRange <= out.blocks[j2].DefRange
           /\ out.blocks[j].DefRange = out.blocks[j2].DefRange =>
                /\ out.blocks[j].synthetic /\ out.blocks[j2].synthetic
                /\ LET v == Value(Src.blocks[out.blocks[j].DefRange].Body.attrs["for_each"],
                                  SrcCtx).val
                   IN  (v.k = "known" /\ ~IsMarked(v)) =>
                         ElementIndex(v, out.blocks[j].iteration.Key)
                           < ElementIndex(v, out.blocks[j2].iteration.Key)

\* a literal block, the MaxLen blocks of a directive in iteration order, a
\* literal block
C2_Witness ==
  /\ out.type = "a"
  /\ Len(out.blocks) = MaxLen + 2
  /\ out.blocks[1].Labels = <<"static0">>
  /\ \A k \in 1..MaxLen :
       /\ out.blocks[k + 1].synthetic
       /\ out.blocks[k + 1].Labels = <<ToString(k - 1)>>
  /\ out.blocks[MaxLen + 2].Labels = <<"static1">>

\* the iterator name a well-formed directive declares
DeclaredIterator(a, type) ==
  IF "iterator" \in DOMAIN a THEN a["iterator"].root ELSE type

\* the string decoding of an expression's value in a context
StringIn(expr, c) ==
  LET v == Value(expr, c)
  IN  IF v.err \/ v.val.ty \notin {"string", "number", "bool", "dynamic"}
        THEN [val |-> DynamicVal, err |-> TRUE]
      ELSE [val |-> ConvertString(v.val).val, err |-> FALSE]

\* Content was taken of the body of a block generated by a directive
NestedContent == out.type # "" /\ parent # <<>> /\ parent[1].synthetic

(***************************************************************************)
(* C3: in the content of a block that directive D_out generated for its    *)
(* iteration o, a well-formed nested directive D_in generates one block    *)
(* for each element of its for_each, evaluated with D_out's iterator       *)
(* standing for o (the cross product); in each of these blocks D_in's      *)
(* iterator stands for the key and value of the inner element and D_out's  *)
(* iterator (unless D_in's iterator has the same name) for the key and     *)
(* value of o, and the attributes decode accordingly.                      *)
(***************************************************************************)
C3_NestedScope ==
  NestedContent =>
    LET o == parent[1].iteration
        outerCtx == (o.IteratorName :> IterObject(o.Key, o.Value)) @@ ctx
    IN  \A d \in DirectivesOf(Src, out.type) :
          LET a == Src.blocks[d].Body.attrs
              innerName == DeclaredIterator(a, out.type)
              fe == Value(a["for_each"], outerCtx)
          IN  (/\ ShapeOk(Src.blocks[d], SchemaOf(out.type))
               /\ ~fe.err
               /\ fe.val.k = "known"
               /\ fe.val.ty \in IterableTypes
               /\ ~IsMarked(fe.val)) =>
                /\ Len(GeneratedAt(d)) = Len(fe.val.es)
                /\ \A i \in 1..Len(fe.val.es) :
                     LET x == GeneratedAt(d)[i]
                         inner == IterObject(Elements(fe.val)[i].key,
                                             Elements(fe.val)[i].value)
                         c == EvalContext(x.iteration, ctx)
                     IN  /\ c[innerName] = inner
                         /\ o.IteratorName # innerName =>
                              c[o.IteratorName] = IterObject(o.Key, o.Value)
                         /\ ~x.unknown =>
                              \A name \in DOMAIN x.Body.attrs :
                                DecodeAttr(x, name, ctx)
                                  = StringIn(x.Body.attrs[name],
                                             (innerName :> inner) @@ outerCtx)

\* the last outer iteration of a map of lists: its inner for_each is the
\* outer value, and the last inner block decodes both iterators
C3_Witness ==
  /\ NestedContent
  /\ out.type = "c"
  /\ parent[1].iteration.IteratorName = "dyn_b"
  /\ parent[1].iteration.Key = StringVal("k" \o ToString(MaxLen))
  /\ \E d \in DirectivesOf(Src, "c") :
       /\ Src.blocks[d].Body.attrs["for_each"] = Trav("dyn_b", "value")
       /\ Len(GeneratedAt(d)) = MaxLen
       /\ DecodeAttr(GeneratedAt(d)[MaxLen], "val0", ctx).val
            = StringVal("e" \o ToString(MaxLen - 1))
       /\ DecodeAttr(GeneratedAt(d)[MaxLen], "val2", ctx).val
            = StringVal("k" \o ToString(MaxLen))

\* newBlock was applied to the decoded directive; its label values, in the
\* context of the iteration
NewBlockDone == nb.k # 0
LabelValuesOfNb ==
  LET s == dyn.res.spec[1]
      c == (s.iteratorName :> IterObject(nb.iteration.Key, nb.iteration.Value)) @@ ctx
  IN  [n \in 1..Len(s.labelExprs) |-> Value(s.labelExprs[n], c)]

\* label n is the first that is not made a label of, and it is unknown
FirstUnusableIsUnknown(ls, n) ==
  /\ \A m \in 1..(n - 1) : UsableLabel(ls[m])
  /\ ~ls[n].err
  /\ ls[n].val.k = "unknown"

\* the blocks of the other iterations: newBlock returns the block of an
\* iteration whose labels are all usable
OtherIterationsProduced ==
  NewBlockDone =>
    ((\A n \in 1..Len(LabelValuesOfNb) : UsableLabel(LabelValuesOfNb[n])) =>
       /\ nb.res.diags = <<>>
       /\ Len(nb.res.block) = 1
       /\ nb.res.block[1].Type = dyn.res.spec[1].blockType
       /\ nb.res.block[1].Labels
            = [n \in 1..Len(LabelValuesOfNb) |->
                 ConvertString(LabelValuesOfNb[n].val).val.s])

(***************************************************************************)
(* C4, as stated: when a label expression evaluates to an unknown value    *)
(* for an iteration, newBlock returns no block and no error diagnostic,    *)
(* and the blocks of the other iterations are produced.                    *)
(***************************************************************************)
C4_AsStated ==
  /\ NewBlockDone =>
       \A n \in 1..Len(LabelValuesOfNb) :
         FirstUnusableIsUnknown(LabelValuesOfNb, n) =>
           nb.res.block = <<>> /\ ~HasErrors(nb.res.diags)
  /\ OtherIterationsProduced

(***************************************************************************)
(* C4: when, for an iteration, the labels before it being usable, a label  *)
(* expression evaluates to an unknown value of a type that converts to     *)
(* string (string, number, bool or the dynamic type), newBlock returns no  *)
(* block and no diagnostic; an unknown value of another type is an error.  *)
(* newBlock returns the block of an iteration whose labels are usable.     *)
(***************************************************************************)
C4_SkipOnUnknownLabel ==
  /\ NewBlockDone =>
       \A n \in 1..Len(LabelValuesOfNb) :
         FirstUnusableIsUnknown(LabelValuesOfNb, n) =>
           /\ nb.res.block = <<>>
           /\ IF LabelValuesOfNb[n].val.ty \in {"string", "number", "bool", "dynamic"}
                THEN nb.res.diags = <<>>
                ELSE HasErrors(nb.res.diags)
  /\ OtherIterationsProduced

\* the second element of a list is unknown and the label is the element:
\* newBlock returns nothing for it
C4_Witness ==
  /\ NewBlockDone
  /\ nb.k = 2
  /\ Len(LabelValuesOfNb) = 1
  /\ LabelValuesOfNb[1].val = UnknownVal("string")
  /\ nb.iteration.Value = UnknownVal("string")
  /\ nb.res = [block |-> <<>>, diags |-> <<>>]

\* the names of a set, in some order
NamesOf(S) ==
  CHOOSE s \in [1..Cardinality(S) -> S] : {s[i] : i \in 1..Cardinality(S)} = S

\* decodeDynamicSpec was applied to a dynamic block of the body
DecodeDone == dyn.idx # 0
DecodedBlock == body.blocks[dyn.idx]
DecodedSchema == SchemaOf(DecodedBlock.Labels[1])

(***************************************************************************)
(* C5: when the for_each value of a directive carries marks M, the marks   *)
(* are no reason for an error: if the shape of the directive is right and  *)
(* the value without its marks is a non-null value of an iterable or the   *)
(* dynamic type, decodeDynamicSpec returns the spec, with the marked       *)
(* value, and no error.  The content value of every block the directive    *)
(* generates carries every mark of M, and an attribute that is the         *)
(* iterator's value decodes to an unknown string without an error.         *)
(***************************************************************************)
C5_MarkPropagation ==
  /\ DecodeDone =>
       LET fe == Value(DecodedBlock.Body.attrs["for_each"], ctx)
       IN  (/\ ShapeOk(DecodedBlock, DecodedSchema)
            /\ ~fe.err
            /\ IsMarked(fe.val)
            /\ fe.val.ty \in IterableTypes \cup {"dynamic"}
            /\ fe.val.k # "null") =>
             /\ ~HasErrors(dyn.res.diags)
             /\ Len(dyn.res.spec) = 1
             /\ dyn.res.spec[1].forEachVal = fe.val
  /\ out.type # "" =>
       \A d \in DirectivesOf(Src, out.type) :
         \A j \in 1..Len(GeneratedAt(d)) :
           LET x == GeneratedAt(d)[j]
               a == Src.blocks[d].Body.attrs
               fe == Value(a["for_each"], SrcCtx).val
           IN  IsMarked(fe) =>
                 /\ fe.marks \subseteq
                      ContentValue(x, NamesOf(DOMAIN x.Body.attrs), ctx).marks
                 /\ \A name \in DOMAIN x.Body.attrs :
                      x.Body.attrs[name]
                          = Trav(DeclaredIterator(a, out.type), "value") =>
                        DecodeAttr(x, name, ctx)
                          = [val |-> UnknownVal("string"), err |-> FALSE]

\* the block of TestExpandMarkedForEach: its content value is marked and
\* the attribute that is the iterator's value is an unknown string
C5_Witness ==
  /\ RootContent
  /\ out.type = "b"
  /\ Len(out.blocks) = 1
  /\ out.blocks[1].synthetic
  /\ IsMarked(Value(body.blocks[1].Body.attrs["for_each"], ctx).val)
  /\ ContentValue(out.blocks[1], <<"val0", "val1">>, ctx)
       = Mark(ObjectVal(<<"val0", "val1">>,
                        <<StringVal("static c 1"), UnknownVal("string")>>), "boop")

\* the directive at position d of the body decodes with an error
DecodeErrorAt(d) ==
  HasErrors(decodeDynamicSpec(SchemaOf(out.type), body.blocks[d], ctx).diags)

\* every attribute of an expanded block decodes to an unknown string
AllFieldsUnknown(x) ==
  \A name \in DOMAIN x.Body.attrs :
    DecodeAttr(x, name, ctx) = [val |-> UnknownVal("string"), err |-> FALSE]

(***************************************************************************)
(* C6, as stated: when the for_each of a directive of the right shape      *)
(* evaluates to an unknown value and the decoding is partial, the          *)
(* directive contributes at least one block, whose fields are unknown, and *)
(* no error.  (Read with labels that are usable while the iterator is      *)
(* unknown.)                                                               *)
(***************************************************************************)
C6_AsStated ==
  (RootContent /\ out.partial) =>
    \A d \in DirectivesOf(body, out.type) :
      (/\ WellFormedAt(d)
       /\ ForEachAt(d).k = "unknown"
       /\ \A n \in 1..Len(LabelValuesAt(d, DynamicVal, DynamicVal)) :
            UsableLabel(LabelValuesAt(d, DynamicVal, DynamicVal)[n])) =>
        /\ ~DecodeErrorAt(d)
        /\ Len(GeneratedAt(d)) >= 1
        /\ \A j \in 1..Len(GeneratedAt(d)) : AllFieldsUnknown(GeneratedAt(d)[j])

(***************************************************************************)
(* C6: when the for_each of a well-formed directive evaluates to an        *)
(* unknown value (marked or not) of an iterable or the dynamic type, its   *)
(* labels are usable with the iterator unknown, and the decoding is        *)
(* partial, the directive contributes exactly one placeholder block of the *)
(* target type, whose fields decode to unknown of the expected type, and   *)
(* no error.  An unknown value of any other type is the 'not iterable'     *)
(* error and no block; a label that is unknown with the iterator unknown   *)
(* leaves no block.                                                        *)
(***************************************************************************)
C6_UnknownForEach ==
  (RootContent /\ out.partial) =>
    \A d \in DirectivesOf(body, out.type) :
      (WellFormedAt(d) /\ ForEachAt(d).k = "unknown") =>
        LET ls == LabelValuesAt(d, DynamicVal, DynamicVal)
        IN  IF ForEachAt(d).ty \notin IterableTypes \cup {"dynamic"}
              THEN DecodeErrorAt(d) /\ GeneratedAt(d) = <<>>
            ELSE IF \A n \in 1..Len(ls) : UsableLabel(ls[n])
              THEN /\ ~DecodeErrorAt(d)
                   /\ Len(GeneratedAt(d)) = 1
                   /\ GeneratedAt(d)[1].Type = out.type
                   /\ GeneratedAt(d)[1].unknown
                   /\ AllFieldsUnknown(GeneratedAt(d)[1])
            ELSE ~DecodeErrorAt(d) /\ GeneratedAt(d) = <<>>

\* the placeholder of a for_each of dynamic type, between the literal blocks
C6_Witness ==
  /\ RootContent
  /\ out.partial
  /\ out.type = "a"
  /\ 2 \in DirectivesOf(body, "a")
  /\ WellFormedAt(2)
  /\ ForEachAt(2) = DynamicVal
  /\ Len(out.blocks) = 3
  /\ out.blocks[2].synthetic
  /\ out.blocks[2].Labels = <<"x">>
  /\ DecodeAttr(out.blocks[2], "val", ctx).val = UnknownVal("string")
  /\ ~HasErrors(out.diags)

\* a diagnostic is among the diagnostics
Reported(diag, diags) == \E i \in 1..Len(diags) : diags[i] = diag

\* decodeDynamicSpec reached the validation of the for_each value
DynamicForEachValidated ==
  DecodeDone /\ ~HasErrors(DynamicSchemaDiags(DecodedSchema, DecodedBlock))
DynamicForEachVal == Value(DecodedBlock.Body.attrs["for_each"], ctx).val

\* decodeMetaArgSpec was applied to a block, and evaluated its for_each
MetaDone == meta.idx # 0
MetaForEachValidated ==
  MetaDone /\ \E i \in 1..Len(meta.res.evaluated) : meta.res.evaluated[i] = "for_each"
MetaForEachVal == Value(body.blocks[meta.idx].Body.attrs["for_each"], ctx).val

(***************************************************************************)
(* C7, as stated: in both decoders a null for_each value, of any type, is  *)
(* reported with the null error and never with the not-iterable error; a   *)
(* known value that is neither iterable nor of dynamic type is reported    *)
(* with the not-iterable error; the summaries of the two errors differ.    *)
(***************************************************************************)
C7_AsStated ==
  /\ DynamicForEachValidated =>
       LET v == DynamicForEachVal
       IN  /\ IsNull(v) =>
                /\ Reported(DynamicNullForEach, dyn.res.diags)
                /\ ~Reported(DynamicNotIterable(v), dyn.res.diags)
           /\ (v.k = "known" /\ v.ty \notin IterableTypes \cup {"dynamic"}) =>
                Reported(DynamicNotIterable(v), dyn.res.diags)
           /\ Reported(DynamicNullForEach, dyn.res.diags) =>
                DynamicNullForEach.summary # DynamicNotIterable(v).summary
  /\ MetaForEachValidated =>
       LET v == MetaForEachVal
       IN  /\ IsNull(v) =>
                /\ Reported(MetaArgNullForEach, meta.res.diags)
                /\ ~Reported(MetaArgNotIterable(v), meta.res.diags)
           /\ (v.k = "known" /\ v.ty \notin IterableTypes \cup {"dynamic"}) =>
                Reported(MetaArgNotIterable(v), meta.res.diags)
           /\ Reported(MetaArgNullForEach, meta.res.diags) =>
                MetaArgNullForEach.summary # MetaArgNotIterable(v).summary

(***************************************************************************)
(* C7: in both decoders a for_each value that fails the test for           *)
(* iterability (its type is neither iterable nor dynamic, whether the      *)
(* value is known, unknown or null; in decodeMetaArgSpec also every marked *)
(* value not of dynamic type) is reported with the not-iterable error,     *)
(* which cites the type (decodeDynamicSpec) or the value                   *)
(* (decodeMetaArgSpec), and not with the null error; a null value that     *)
(* passes the test is reported with the null error and not with the        *)
(* not-iterable error; any other value with neither.  The two errors       *)
(* differ in their detail in both decoders, and in their summary in        *)
(* decodeMetaArgSpec only.                                                 *)
(***************************************************************************)
C7_ForEachValidation ==
  /\ DynamicForEachValidated =>
       LET v == DynamicForEachVal
           notIterable == Reported(DynamicNotIterable(v), dyn.res.diags)
           null == Reported(DynamicNullForEach, dyn.res.diags)
       IN  /\ IF v.ty \notin IterableTypes \cup {"dynamic"}
                THEN notIterable /\ ~null /\ dyn.res.spec = <<>>
              ELSE IF v.k = "null"
                THEN null /\ ~notIterable /\ dyn.res.spec = <<>>
              ELSE ~null /\ ~notIterable
           /\ DynamicNotIterable(v).detail
                = "Cannot use a " \o FriendlyName(v.ty)
                    \o " value in for_each. An iterable collection is required."
           /\ DynamicNullForEach.detail # DynamicNotIterable(v).detail
           /\ DynamicNullForEach.summary = DynamicNotIterable(v).summary
  /\ MetaForEachValidated =>
       LET v == MetaForEachVal
           notIterable == Reported(MetaArgNotIterable(v), meta.res.diags)
           null == Reported(MetaArgNullForEach, meta.res.diags)
       IN  /\ meta.res.spec.forEachSet
           /\ IF v.ty # "dynamic" /\ (v.ty \notin IterableTypes \/ v.marks # {})
                THEN notIterable /\ ~null
              ELSE IF v.k = "null"
                THEN null /\ ~notIterable
              ELSE ~null /\ ~notIterable
           /\ MetaArgNullForEach.detail # MetaArgNotIterable(v).detail
           /\ MetaArgNullForEach.summary # MetaArgNotIterable(v).summary

\* decodeDynamicSpec reported a null string as a string that is not iterable
C7_Witness ==
  /\ DynamicForEachValidated
  /\ DynamicForEachVal = NullVal("string")
  /\ dyn.res.spec = <<>>
  /\ dyn.res.diags
       = <<Diag("Invalid dynamic for_each value",
                "Cannot use a string value in for_each. An iterable collection is required.")>>

\* decodeMetaArgSpec was applied to a block with a count attribute; the
\* value of the attribute, without its marks
MetaCountDecoded == MetaDone /\ "count" \in DOMAIN body.blocks[meta.idx].Body.attrs
MetaCountEval == Value(body.blocks[meta.idx].Body.attrs["count"], ctx)
MetaCountVal == Unmark(MetaCountEval.val)

\* the diagnostics of the validation of count
CountErrors ==
  SelectSeq(meta.res.diags,
            LAMBDA x : x.summary \in {"Invalid count argument", "Incorrect value type"})

\* the number a value stands for, in halves, if it stands for one
IsNumeric(v) == v.ty = "number" \/ (v.ty = "string" /\ v.s \in NumberStrings)
HalvesOf(v) == IF v.ty = "number" THEN v.n ELSE ParseNumber(v.s)

(***************************************************************************)
(* C8: for a known count value, decodeMetaArgSpec reports a count error    *)
(* if and only if the value without its marks is null, does not convert to *)
(* a number, is not a whole number or is negative; a negative whole number *)
(* gets the detail 'negative numbers are not supported', a null the detail *)
(* 'value is null. An integer is required.'; without an error countNum is  *)
(* the value, and not negative.                                            *)
(***************************************************************************)
C8_CountValidation ==
  (MetaCountDecoded /\ MetaCountVal.k # "unknown") =>
    LET v == MetaCountVal
        bad == \/ v.k = "null"
               \/ ~IsNumeric(v)
               \/ HalvesOf(v) % 2 # 0
               \/ HalvesOf(v) < 0
    IN  /\ meta.res.spec.countSet
        /\ (CountErrors # <<>>) <=> bad
        /\ Len(CountErrors) <= 1
        /\ v.k = "null" =>
             CountErrors = <<Diag("Invalid count argument",
                                  "The given \"count\" argument value is null. An integer is required.")>>
        /\ (v.k # "null" /\ IsNumeric(v) /\ HalvesOf(v) % 2 = 0 /\ HalvesOf(v) < 0) =>
             CountErrors = <<Diag("Invalid count argument",
                                  "The given \"count\" argument value is unsuitable: negative numbers are not supported.")>>
        /\ ~bad =>
             /\ meta.res.spec.countNum = HalvesOf(v) \div 2
             /\ meta.res.spec.countNum >= 0

\* the marked count -1 was reported as negative
C8_Witness ==
  /\ MetaCountDecoded
  /\ MetaCountEval.val = Mark(NumberIntVal(-1), "boop")
  /\ Len(CountErrors) = 1
  /\ CountErrors[1].detail
       = "The given \"count\" argument value is unsuitable: negative numbers are not supported."

(***************************************************************************)
(* C9: when the count expression evaluates to an unknown value, marked or  *)
(* not, decodeMetaArgSpec sets countSet, keeps the value without its marks *)
(* in countVal, reports nothing about the count, and goes on to the        *)
(* for_each attribute: if the block has one it is evaluated and            *)
(* forEachSet is set.                                                      *)
(***************************************************************************)
C9_UnknownCountDeferred ==
  (MetaCountDecoded /\ MetaCountEval.val.k = "unknown") =>
    /\ meta.res.spec.countSet
    /\ meta.res.spec.countVal = Unmark(MetaCountEval.val)
    /\ meta.res.spec.countVal.marks = {}
    /\ CountErrors = <<>>
    /\ "for_each" \in DOMAIN body.blocks[meta.idx].Body.attrs =>
         /\ meta.res.evaluated = <<"count", "for_each">>
         /\ meta.res.spec.forEachSet
         /\ meta.res.spec.forEachVal = MetaForEachVal

\* a marked unknown count next to a for_each that was then decoded
C9_Witness ==
  /\ MetaCountDecoded
  /\ MetaCountEval.val = Mark(DynamicVal, "boop")
  /\ meta.res.spec.countVal = DynamicVal
  /\ meta.res.spec.forEachSet
  /\ meta.res.evaluated = <<"count", "for_each">>

\* decodeMetaArgSpec was applied to a block with both meta-arguments
MetaBothDecoded ==
  MetaCountDecoded /\ "for_each" \in DOMAIN body.blocks[meta.idx].Body.attrs

\* no diagnostic but those of the evaluation and the validation of the two
\* attributes, each on its own
NoRejection ==
  \A i \in 1..Len(meta.res.diags) :
    \/ meta.res.diags[i] = EvalDiag
    \/ meta.res.diags[i].summary \in {"Invalid count argument", "Incorrect value type"}
    \/ meta.res.diags[i] \in {MetaArgNullForEach, MetaArgNotIterable(MetaForEachVal)}

(***************************************************************************)
(* C10, as stated: a block with both a count and a for_each attribute is   *)
(* decoded without the combination being rejected, only one of the two     *)
(* expressions is evaluated, and the spec never has both countSet and      *)
(* forEachSet.                                                             *)
(***************************************************************************)
C10_AsStated ==
  MetaBothDecoded =>
    /\ NoRejection
    /\ Len(meta.res.evaluated) <= 1
    /\ ~(meta.res.spec.countSet /\ meta.res.spec.forEachSet)

(***************************************************************************)
(* C10: a block with both a count and a for_each attribute is decoded      *)
(* without the combination being rejected.  count is evaluated first and   *)
(* countSet is set; unless the validation of count reported an error,      *)
(* for_each is evaluated too and the spec has both countSet and            *)
(* forEachSet; only a count error leaves for_each unevaluated.             *)
(***************************************************************************)
C10_BothMetaArgs ==
  MetaBothDecoded =>
    /\ NoRejection
    /\ meta.res.spec.countSet
    /\ meta.res.spec.countVal = MetaCountVal
    /\ IF CountErrors # <<>>
         THEN /\ meta.res.evaluated = <<"count">>
              /\ ~meta.res.spec.forEachSet
         ELSE /\ meta.res.evaluated = <<"count", "for_each">>
              /\ meta.res.spec.forEachSet
              /\ meta.res.spec.forEachVal = MetaForEachVal
    /\ (/\ MetaCountEval.val = NumberIntVal(2)
        /\ MetaForEachVal.k = "known" /\ MetaForEachVal.ty \in {"list", "map"}
        /\ MetaForEachVal.marks = {}) =>
         meta.res.diags = <<>>

\* count = 2 and a list of MaxLen elements: both decoded, nothing reported
C10_Witness ==
  /\ MetaBothDecoded
  /\ meta.res.diags = <<>>
  /\ meta.res.spec.countSet /\ meta.res.spec.countNum = 2
  /\ meta.res.spec.forEachSet
  /\ meta.res.spec.forEachVal = ListVal(Strings(MaxLen))

\* decodeDynamicSpec reached the labels attribute: the shape of the block,
\* its for_each value and its iterator passed
DynamicLabelsReached ==
  /\ DynamicForEachValidated
  /\ DynamicForEachDiags(DynamicForEachVal) = <<>>
  /\ DynamicIterator(DecodedSchema, DecodedBlock.Body.attrs).diags = <<>>
  /\ "labels" \in DOMAIN DecodedBlock.Body.attrs
  /\ DecodedBlock.Body.attrs["labels"].e = "list"

\* the detail that names the number of labels blocks of a type require
RequiredLabelsDetail(type, n) ==
  "Blocks of type \"" \o type \o "\" require " \o ToString(n) \o " label(s)."

(***************************************************************************)
(* C11: when decodeDynamicSpec comes to a labels attribute, it goes on     *)
(* only if the number of label expressions is the number of label names of *)
(* the schema; with more it returns no spec and the error 'Extraneous      *)
(* dynamic block label', with fewer no spec and the error 'Insufficient    *)
(* dynamic block labels', both with a detail that names the number the     *)
(* schema requires.  With the same number neither is reported and a spec   *)
(* that is returned has the label expressions.                             *)
(***************************************************************************)
C11_LabelCount ==
  DynamicLabelsReached =>
    LET given == Len(DecodedBlock.Body.attrs["labels"].items)
        required == Len(DecodedSchema.LabelNames)
        detail == RequiredLabelsDetail(DecodedSchema.Type, required)
        extraneous == Diag("Extraneous dynamic block label", detail)
        insufficient == Diag("Insufficient dynamic block labels", detail)
    IN  /\ given > required =>
             /\ dyn.res.spec = <<>>
             /\ Reported(extraneous, dyn.res.diags)
             /\ ~Reported(insufficient, dyn.res.diags)
        /\ given < required =>
             /\ dyn.res.spec = <<>>
             /\ Reported(insufficient, dyn.res.diags)
             /\ ~Reported(extraneous, dyn.res.diags)
        /\ given = required =>
             /\ ~Reported(extraneous, dyn.res.diags)
             /\ ~Reported(insufficient, dyn.res.diags)
             /\ dyn.res.spec # <<>> =>
                  dyn.res.spec[1].labelExprs = DecodedBlock.Body.attrs["labels"].items

\* one label expression for a block type of two labels
C11_Witness ==
  /\ DynamicLabelsReached
  /\ DecodedSchema.Type = "d"
  /\ Len(DecodedBlock.Body.attrs["labels"].items) = 1
  /\ dyn.res.spec = <<>>
  /\ dyn.res.diags = <<Diag("Insufficient dynamic block labels",
                            "Blocks of type \"d\" require 2 label(s).")>>

\* decodeDynamicSpec reached the content blocks: the shape of the block, its
\* for_each value, its iterator and its labels passed
DynamicContentReached ==
  /\ DynamicForEachValidated
  /\ DynamicForEachDiags(DynamicForEachVal) = <<>>
  /\ DynamicIterator(DecodedSchema, DecodedBlock.Body.attrs).diags = <<>>
  /\ DynamicLabels(DecodedSchema, DecodedBlock.Body.attrs).diags = <<>>

(***************************************************************************)
(* C12: when decodeDynamicSpec comes to the nested blocks of a directive,  *)
(* it returns a spec only if there is exactly one content block, and the   *)
(* body of that block is the template body of the spec; with none it       *)
(* returns no spec and the error 'Missing dynamic content block', with two *)
(* or more no spec and the error 'Extraneous dynamic content block' whose  *)
(* subject is the range of the second content block.                       *)
(***************************************************************************)
C12_ContentCount ==
  DynamicContentReached =>
    LET blocks == DecodedBlock.Body.blocks
        n == Len(blocks)
    IN  /\ dyn.res.spec # <<>> <=> n = 1
        /\ n = 1 => dyn.res.spec[1].contentBody = blocks[1].Body
        /\ n = 0 =>
             \E i \in 1..Len(dyn.res.diags) :
               /\ dyn.res.diags[i].summary = "Missing dynamic content block"
               /\ dyn.res.diags[i].severity = "error"
        /\ n >= 2 =>
             \E i \in 1..Len(dyn.res.diags) :
               /\ dyn.res.diags[i].summary = "Extraneous dynamic content block"
               /\ dyn.res.diags[i].severity = "error"
               /\ dyn.res.diags[i].subject = <<blocks[2].DefRange>>

\* three content blocks: the error points at the second
C12_Witness ==
  /\ DynamicContentReached
  /\ Len(DecodedBlock.Body.blocks) = 3
  /\ dyn.res.spec = <<>>
  /\ \E i \in 1..Len(dyn.res.diags) :
       /\ dyn.res.diags[i].summary = "Extraneous dynamic content block"
       /\ dyn.res.diags[i].subject = <<2>>

\* decodeDynamicSpec reached the iterator attribute: the shape of the block
\* and its for_each value passed
DynamicIteratorReached ==
  /\ DynamicForEachValidated
  /\ DynamicForEachDiags(DynamicForEachVal) = <<>>

(***************************************************************************)
(* C13: the iterator name of a decoded spec is the type of the target      *)
(* block when the directive has no iterator attribute and the root name of *)
(* the attribute when it is a single bare identifier; an iterator that is  *)
(* a traversal of more than one step is refused with the error 'Invalid    *)
(* dynamic iterator name' and no spec.                                     *)
(***************************************************************************)
C13_IteratorName ==
  DynamicIteratorReached =>
    LET attrs == DecodedBlock.Body.attrs
    IN  /\ ("iterator" \notin DOMAIN attrs /\ dyn.res.spec # <<>>) =>
             dyn.res.spec[1].iteratorName = DecodedSchema.Type
        /\ ("iterator" \in DOMAIN attrs /\ dyn.res.spec # <<>>) =>
             /\ attrs["iterator"].e = "trav"
             /\ attrs["iterator"].attr = ""
             /\ dyn.res.spec[1].iteratorName = attrs["iterator"].root
        /\ ("iterator" \in DOMAIN attrs /\ attrs["iterator"].e = "trav"
              /\ attrs["iterator"].attr # "") =>
             /\ dyn.res.spec = <<>>
             /\ Reported(Diag("Invalid dynamic iterator name",
                              "Dynamic iterator must be a single variable name."),
                         dyn.res.diags)

\* a directive for "b" blocks with iterator = it decodes to a spec named it
C13_Witness ==
  /\ DynamicIteratorReached
  /\ "iterator" \in DOMAIN DecodedBlock.Body.attrs
  /\ DecodedSchema.Type = "b"
  /\ dyn.res.spec # <<>>
  /\ dyn.res.spec[1].iteratorName = "it"

\* the for_each expression of the decoded directive failed to evaluate
DynamicForEachEvalError ==
  Value(DecodedBlock.Body.attrs["for_each"], ctx).err

(***************************************************************************)
(* C14, as stated: decodeDynamicSpec returns a spec exactly when the       *)
(* diagnostics it returns contain no error.                                *)
(***************************************************************************)
C14_AsStated ==
  DecodeDone => (dyn.res.spec # <<>> <=> ~HasErrors(dyn.res.diags))

(***************************************************************************)
(* C14: decodeDynamicSpec returns no spec only together with an error, and *)
(* a spec together with an error only when the error was raised by the     *)
(* evaluation of the for_each expression: the diagnostics of the           *)
(* evaluation are kept and the decoding goes on with the value the failed  *)
(* evaluation returned, so that a directive that passes every check comes  *)
(* back as a spec together with the evaluation error.  When the for_each   *)
(* expression evaluates without error, a spec is returned exactly when the *)
(* diagnostics contain no error.                                           *)
(***************************************************************************)
C14_SpecOrDiagnostics ==
  DecodeDone =>
    /\ dyn.res.spec = <<>> => HasErrors(dyn.res.diags)
    /\ (dyn.res.spec # <<>> /\ HasErrors(dyn.res.diags)) =>
         /\ DynamicForEachEvalError
         /\ dyn.res.diags = <<EvalDiag>>
    /\ (DynamicContentReached /\ DynamicForEachEvalError
          /\ DynamicContentDiags(DecodedBlock.Body.blocks) = <<>>) =>
         /\ dyn.res.spec # <<>>
         /\ dyn.res.spec[1].forEachVal = DynamicVal
         /\ dyn.res.diags = <<EvalDiag>>

\* a directive whose for_each fails to evaluate, decoded to a spec and an error
C14_Witness ==
  /\ DecodeDone
  /\ "for_each" \in DOMAIN DecodedBlock.Body.attrs
  /\ DecodedBlock.Body.attrs["for_each"] = BadExpr
  /\ dyn.res.spec # <<>>
  /\ HasErrors(dyn.res.diags)

\* the body holds literal blocks only: no dynamic block, and no block with a
\* count or for_each argument of its own
LiteralBody ==
  \A k \in 1..Len(body.blocks) :
    /\ body.blocks[k].Type # "dynamic"
    /\ DOMAIN body.blocks[k].Body.attrs \cap {"count", "for_each"} = {}

\* an expanded block without what the expansion attached to it
SourceBlockOf(x) == Block(x.Type, x.Labels, x.DefRange, x.Body)

(***************************************************************************)
(* C15: Content and PartialContent of the expansion of a body of literal   *)
(* blocks only return, for a requested block type, exactly the blocks of   *)
(* that type of the body, unchanged and in source order, none of them      *)
(* synthetic, unknown or bound to an iterator; the expansion adds no       *)
(* diagnostic: the only diagnostics are those of the blocks of a type the  *)
(* schema does not name, when the decoding is complete.                    *)
(***************************************************************************)
C15_LiteralPassthrough ==
  (RootContent /\ LiteralBody) =>
    LET requested == SelectSeq(body.blocks, LAMBDA r : r.Type = out.type)
        others == SelectSeq(body.blocks, LAMBDA r : r.Type # out.type)
    IN  /\ Len(out.blocks) = Len(requested)
        /\ \A j \in 1..Len(out.blocks) :
             /\ SourceBlockOf(out.blocks[j]) = requested[j]
             /\ ~out.blocks[j].synthetic
             /\ ~out.blocks[j].unknown
             /\ out.blocks[j].iteration = NilIteration
             /\ out.blocks[j].valueMarks = {}
        /\ out.diags = IF out.partial THEN <<>>
                       ELSE [k \in 1..Len(others) |-> UnsupportedBlockDiag]

\* two labelled literal blocks of the requested type, returned in their order
C15_Witness ==
  /\ RootContent
  /\ LiteralBody
  /\ out.type = "a"
  /\ Len(body.blocks) >= 2
  /\ Len(out.blocks) = 2
  /\ out.blocks[1].Labels # out.blocks[2].Labels
  /\ out.diags = <<>>

\* the diagnostics of newBlock for label values
MarkedLabelDiag ==
  Diag("Invalid dynamic block label",
       "This value has dynamic marks that make it unsuitable for use as a block label.")
NullLabelDiag ==
  Diag("Invalid dynamic block label",
       "Cannot use a null value as a dynamic block label.")

\* label n is evaluated by newBlock (the labels before it were made labels
\* of) and its value carries marks
MarkedLabelAt(ls, n) ==
  /\ \A m \in 1..(n - 1) : UsableLabel(ls[m])
  /\ ~ls[n].err
  /\ ls[n].val.marks # {}

(***************************************************************************)
(* C16, as stated: whenever a label expression evaluates to a marked       *)
(* value, newBlock returns no block and reports that the value has dynamic *)
(* marks that make it unsuitable for use as a block label.                 *)
(***************************************************************************)
C16_AsStated ==
  NewBlockDone =>
    \A n \in 1..Len(LabelValuesOfNb) :
      MarkedLabelAt(LabelValuesOfNb, n) =>
        /\ nb.res.block = <<>>
        /\ Reported(MarkedLabelDiag, nb.res.diags)

(***************************************************************************)
(* C16: whenever a label expression evaluates to a marked value, newBlock  *)
(* returns no block.  The marks are looked at last: a marked value with no *)
(* conversion to string is reported as such, a marked null as a null       *)
(* label, a marked unknown value ends the block without any diagnostic,    *)
(* and only a marked value that converts to a known, non-null string is    *)
(* reported as having dynamic marks that make it unsuitable for use as a   *)
(* block label.  Marks are never stripped: every label of a block newBlock *)
(* returns comes from a known, non-null, unmarked value.                   *)
(***************************************************************************)
C16_MarkedLabels ==
  NewBlockDone =>
    /\ \A n \in 1..Len(LabelValuesOfNb) :
         MarkedLabelAt(LabelValuesOfNb, n) =>
           LET conv == ConvertString(LabelValuesOfNb[n].val)
           IN  /\ nb.res.block = <<>>
               /\ IF ~conv.ok
                    THEN /\ HasErrors(nb.res.diags)
                         /\ ~Reported(MarkedLabelDiag, nb.res.diags)
                         /\ ~Reported(NullLabelDiag, nb.res.diags)
                  ELSE IF conv.val.k = "null" THEN nb.res.diags = <<NullLabelDiag>>
                  ELSE IF conv.val.k = "unknown" THEN nb.res.diags = <<>>
                  ELSE nb.res.diags = <<MarkedLabelDiag>>
    /\ nb.res.block # <<>> =>
         /\ Len(nb.res.block[1].Labels) = Len(LabelValuesOfNb)
         /\ \A n \in 1..Len(LabelValuesOfNb) :
              /\ UsableLabel(LabelValuesOfNb[n])
              /\ nb.res.block[1].Labels[n] = ConvertString(LabelValuesOfNb[n].val).val.s

\* a label that is a known marked string: no block, and the error of the marks
C16_Witness ==
  /\ NewBlockDone
  /\ Len(LabelValuesOfNb) = 1
  /\ LabelValuesOfNb[1].val = Mark(StringVal("x"), "boop")
  /\ nb.res = [block |-> <<>>, diags |-> <<MarkedLabelDiag>>]

\* a body without its block at position d
WithoutBlock(src, d) ==
  Body(src.attrs, [k \in 1..(Len(src.blocks) - 1) |->
                     IF k < d THEN src.blocks[k] ELSE src.blocks[k + 1]])

\* the content of a body for the block type and the mode of out
ContentOf(src) == Content(Expand(src), SchemaOf(out.type), ctx, out.partial)

\* the decoding of the directive at position d of the body
DecodedAt(d) == decodeDynamicSpec(SchemaOf(out.type), body.blocks[d], ctx)

\* the label values of a spec in the context of an iteration
LabelValuesIn(s, i) ==
  [n \in 1..Len(s.labelExprs) |-> Value(s.labelExprs[n], EvalContext(i, ctx))]
AllLabelsUsable(s, i) ==
  \A n \in 1..Len(s.labelExprs) : UsableLabel(LabelValuesIn(s, i)[n])

\* a failing directive takes only its own blocks away: the blocks returned
\* are those of the body without the directive, and its errors are returned
DirectiveIsolation ==
  RootContent =>
    \A d \in DirectivesOf(body, out.type) :
      DecodeErrorAt(d) =>
        /\ GeneratedAt(d) = <<>>
        /\ out.blocks = ContentOf(WithoutBlock(body, d)).blocks
        /\ \A i \in 1..Len(DecodedAt(d).diags) : Reported(DecodedAt(d).diags[i], out.diags)

\* a failing element takes only its own block away: the directive generates
\* the blocks of the iterations whose labels are all usable, in their order,
\* and the errors of the others are returned
ElementIsolation ==
  RootContent =>
    \A d \in DirectivesOf(body, out.type) :
      ~DecodeErrorAt(d) =>
        LET s == DecodedAt(d).spec[1]
            its == Iterations(Expand(body), s)
            good == SelectSeq(its, LAMBDA i : AllLabelsUsable(s, i))
        IN  /\ Len(GeneratedAt(d)) = Len(good)
            /\ \A j \in 1..Len(good) :
                 /\ GeneratedAt(d)[j].iteration = good[j]
                 /\ Len(GeneratedAt(d)[j].Labels) = Len(s.labelExprs)
            /\ \A k \in 1..Len(its) :
                 \A i \in 1..Len(newBlock(s, its[k], ctx).diags) :
                   Reported(newBlock(s, its[k], ctx).diags[i], out.diags)

\* newBlock returns a block with one label for each label expression, or none
CompleteOrNothing ==
  NewBlockDone =>
    /\ nb.res.block # <<>> <=>
         \A n \in 1..Len(LabelValuesOfNb) : UsableLabel(LabelValuesOfNb[n])
    /\ nb.res.block # <<>> =>
         Len(nb.res.block[1].Labels) = Len(dyn.res.spec[1].labelExprs)
    /\ nb.res.block = <<>> =>
         \/ HasErrors(nb.res.diags)
         \/ \E n \in 1..Len(LabelValuesOfNb) : LabelValuesOfNb[n].val.k = "unknown"

(***************************************************************************)
(* C17: an error in the decoding of one directive, or in the labels of one *)
(* of its elements, takes away the blocks of that directive, or of that    *)
(* element, and nothing else: the literal blocks and the blocks of the     *)
(* other directives and elements are returned as they would be without it, *)
(* together with the error.  newBlock returns a block with one label for   *)
(* each label expression or no block at all.                               *)
(***************************************************************************)
C17_FailureIsolation ==
  /\ DirectiveIsolation
  /\ ElementIsolation
  /\ CompleteOrNothing

\* a directive that fails to decode, a literal block and a directive with an
\* element whose label is null: the literal block, the block of the other
\* element and both errors are returned
C17_Witness ==
  /\ RootContent
  /\ Len(body.blocks) = 3
  /\ DirectivesOf(body, out.type) = {1, 3}
  /\ DecodeErrorAt(1)
  /\ ~DecodeErrorAt(3)
  /\ Len(Iterations(Expand(body), DecodedAt(3).spec[1])) = 2
  /\ Len(out.blocks) = 2
  /\ ~out.blocks[1].synthetic
  /\ out.blocks[2].synthetic /\ out.blocks[2].Labels = <<"e0">>
  /\ Reported(NullLabelDiag, out.diags)
  /\ Len(out.diags) = 2

(***************************************************************************)
(* The runner: what the properties below speak of.                         *)
(***************************************************************************)
\* the last call on the runner was EmitIssue
EmitIssueDone == last.op = "EmitIssue"

\* the issues the last EmitIssue handed to emitIssue, in their order
BuiltByLast == SubSeq(emitted, Len(emitted) - last.built + 1, Len(emitted))

\* an annotation registered for the file of the issue affects the issue
AffectedByAnnotation(issue) ==
  /\ issue.Range.Filename \in DOMAIN runner.annotations
  /\ \E i \in 1..Len(runner.annotations[issue.Range.Filename]) :
       IsAffected(runner.annotations[issue.Range.Filename][i], issue)

(***************************************************************************)
(* C18: after any sequence of calls, Issues holds exactly the issues       *)
(* handed to emitIssue that no annotation registered for their file        *)
(* affects, in the order they were emitted.  In the root module EmitIssue  *)
(* emits the issue it is called with and returns true exactly when it      *)
(* appended it.                                                            *)
(***************************************************************************)
C18_SuppressedNotAccumulated ==
  /\ Issues = SelectSeq(emitted, LAMBDA i : ~AffectedByAnnotation(i))
  /\ (EmitIssueDone /\ runner.IsRoot) =>
       /\ last.built = 1
       /\ BuiltByLast[1].Rule = last.rule
       /\ BuiltByLast[1].Range = last.location
       /\ BuiltByLast[1].Fixable = last.fixable
       /\ last.ret <=> Issues = Append(last.prevIssues, BuiltByLast[1])
       /\ ~last.ret <=> Issues = last.prevIssues

\* the root runner was given an issue its annotations ignore and then one
\* they do not: only the second is accumulated
C18_Witness ==
  /\ runner.IsRoot
  /\ EmitIssueDone
  /\ Len(emitted) = 2
  /\ AffectedByAnnotation(emitted[1])
  /\ Issues = <<emitted[2]>>
  /\ last.ret

\* the variables of the root module the current expression leads to, as the
\* set of their declarations
RootDeclsOfExpr ==
  {m.DeclRange :
     m \in UNION {{roots(runner.modVars[n])[k] : k \in 1..Len(roots(runner.modVars[n]))} :
                    n \in listVarRefs(currentExpr) \cap DOMAIN runner.modVars}}

LookupFiles == SUBSET {"main.tf", "./main.tf", "other.tf"}

(***************************************************************************)
(* C20: ApplyChanges with changes whose rebuild reports an error leaves    *)
(* the recorded changes, as LookupChanges returns them for any files,      *)
(* exactly as they were; when the rebuild succeeds the recorded changes    *)
(* are the previous ones overridden by the new ones; an empty change set   *)
(* changes nothing; after ClearChanges no change is recorded.              *)
(***************************************************************************)
C20_ApplyChangesAllOrNothing ==
  /\ last.op = "ApplyChanges" =>
       IF DOMAIN last.given = {} \/ last.failed
         THEN /\ changes = last.prevChanges
              /\ \A files \in LookupFiles :
                   LookupChanges(changes, files) = LookupChanges(last.prevChanges, files)
              /\ last.ret <=> DOMAIN last.given = {}
       ELSE /\ last.ret
            /\ DOMAIN changes = DOMAIN last.prevChanges \cup DOMAIN last.given
            /\ \A path \in DOMAIN changes :
                 changes[path] = IF path \in DOMAIN last.given THEN last.given[path]
                                 ELSE last.prevChanges[path]
  /\ last.op = "ClearChanges" =>
       \A files \in LookupFiles : DOMAIN LookupChanges(changes, files) = {}

\* changes are recorded, and a second set of changes fails to rebuild
C20_Witness ==
  /\ last.op = "ApplyChanges"
  /\ last.failed
  /\ DOMAIN last.given # {}
  /\ DOMAIN last.prevChanges # {}
  /\ \E path \in DOMAIN last.given \cap DOMAIN last.prevChanges :
       last.given[path] # last.prevChanges[path]
  /\ changes = last.prevChanges

(***************************************************************************)
(* The annotations: what the properties below speak of.                    *)
(***************************************************************************)
\* the rule list names a rule: between two commas, or an end of the list,
\* stands the name with nothing but white space around it
ListsRule(content, name) ==
  \E i \in 1..(Len(content) + 1), j \in 0..Len(content) :
    /\ (i = 1 \/ content[i - 1] = ",")
    /\ (j = Len(content) \/ content[j + 1] = ",")
    /\ \A k \in i..j : content[k] # ","
    /\ \E a \in i..j, b \in i..j :
         /\ SubSeq(content, a, b) = name
         /\ \A k \in (i..j) \ (a..b) : content[k] \in {" ", "\t", "\n", "\r"}

\* the annotation and the issue of the last call of IsAffected are in the
\* same file and the rule list of the annotation names the rule of the issue
\* or all
AnnotationNamesIssue ==
  /\ affected.annotation.Token.Range.Filename = affected.issue.Range.Filename
  /\ \/ ListsRule(affected.annotation.Content, affected.issue.Rule)
     \/ ListsRule(affected.annotation.Content, <<"a", "l", "l">>)

\* IsAffected on a line annotation and on a file annotation, as the claim
\* states it
AffectsAsStated ==
  affected.done =>
    IF affected.annotation.kind = "line"
      THEN affected.result <=>
             /\ AnnotationNamesIssue
             /\ \/ affected.annotation.Token.Range.Start.Line
                     = affected.issue.Range.Start.Line
                \/ affected.annotation.Token.Range.Start.Line
                     = affected.issue.Range.Start.Line - 1
    ELSE affected.result <=> AnnotationNamesIssue

\* the file is a JSON file
IsJsonFile == Len(file.path) > 0 /\ file.path[Len(file.path)] = ".json"

\* the bytes carry the words of a pattern followed by a rule list
Carries(pattern, bytes) == FindStringSubmatchIndex(pattern, bytes) # <<>>

\* the top of a file
TopOfFile == [Line |-> 1, Column |-> 1]

\* the annotations made of the token that starts at a position, and the
\* errors reported at it
AnnotationsAt(start) ==
  {k \in 1..Len(ants.ret) : ants.ret[k].Token.Range.Start = start}
ErrorsAt(start) ==
  {k \in 1..Len(ants.diags) :
     /\ ants.diags[k].severity = "error"
     /\ ants.diags[k].subject # <<>>
     /\ ants.diags[k].subject[1].Start = start}

====
